---- MODULE Spec2Model ----
(***************************************************************************)
(* A model of the pkms retrieval pipeline: the hybrid search engine        *)
(* (pkms/lib/search/search_engine_planv3.py), the hierarchical chunker     *)
(* (.pkms/lib/chunking/hybrid.py), the tools that maintain the chunk       *)
(* store, the embedding store and the lexical index (.pkms/tools/chunk.py, *)
(* embed_index.py, index.py), the link rebuild (.pkms/tools/link.py) and   *)
(* the relevance scorers (.pkms/tools/relevance.py, pkms/tools/            *)
(* relevance.py), the writes of record and chunk files next to a reader    *)
(* (pkms/lib/records_io.py, .pkms/tools/chunk.py), create_record of the    *)
(* ingest tools and the ingest worker (services/ingest_worker).            *)
(*                                                                         *)
(* Identifiers.  A doc_id is a number (a fixed-width ULID), a chunk_hash   *)
(* is a number (12 hex characters), and a chunk_id "doc_id:chunk_hash" is  *)
(* the pair <<doc_id, chunk_hash>>; the byte order of chunk_id strings is  *)
(* the lexicographic order of the pairs.                                   *)
(*                                                                         *)
(* Numbers.  An RRF score is an exact fraction num/den where den is the    *)
(* least common multiple of the rank denominators of one fusion call.  A   *)
(* cosine similarity dot/(|m|*|q|) is kept as the pair (dot, |m|^2*|q|^2)  *)
(* and compared exactly.  At the list lengths of the model two different   *)
(* exact values differ by far more than a float rounding error, so the     *)
(* order and the ties of the floats are those of the exact values.         *)
(***************************************************************************)
EXTENDS Integers, Sequences, FiniteSets, TLC

\* ------------------------------------------------------------------
\* Bounds of the model
\* ------------------------------------------------------------------
MaxK == 3              \* search is called with k in 1..MaxK
MaxGroupLimit == 2     \* engines are built with group_limit in 1..MaxGroupLimit
MaxKwHits == 3         \* length of the BM25 ranking returned for a query

\* ------------------------------------------------------------------
\* Program constants (defaults of SearchEngine.__init__)
\* ------------------------------------------------------------------
max_keyword_hits == 50
max_semantic_hits == 50
rrf_k == 60

\* ------------------------------------------------------------------
\* Generic helpers
\* ------------------------------------------------------------------
Range(s) == {s[i] : i \in DOMAIN s}

MinOf(a, b) == IF a < b THEN a ELSE b

MaxOf(a, b) == IF a > b THEN a ELSE b

Abs(a) == IF a < 0 THEN 0 - a ELSE a

Take(s, n) == SubSeq(s, 1, MinOf(n, Len(s)))

Reverse(s) == [i \in 1..Len(s) |-> s[Len(s) + 1 - i]]

RECURSIVE GCD(_, _)
GCD(a, b) == IF b = 0 THEN a ELSE GCD(b, a % b)

LCM(a, b) == (a \div GCD(a, b)) * b

RECURSIVE LCMUpTo(_, _)
\* least common multiple of base+1 .. base+n
LCMUpTo(base, n) == IF n = 0 THEN 1 ELSE LCM(LCMUpTo(base, n - 1), base + n)

\* all sequences without repetition over S of length at most n
RECURSIVE Rankings(_, _)
Rankings(S, n) ==
  IF n = 0 THEN {<<>>}
  ELSE {<<>>} \cup {<<x>> \o r : x \in S, r \in Rankings(S, n - 1)}

NoRepeat(s) == \A i, j \in DOMAIN s : i # j => s[i] # s[j]

\* Python's None and a present number num/den
None == [some |-> FALSE, num |-> 0, den |-> 1]

Some(n, d) == [some |-> TRUE, num |-> n, den |-> d]

\* ------------------------------------------------------------------
\* State
\* ------------------------------------------------------------------
VARIABLES
  chunks_dir,         \* chunk store: doc_id -> sequence of chunk lines
  emb_dir,            \* embedding files: chunk_hash -> raw vector
  embed_fn,           \* "None" or "fn"
  group_limit,        \* SearchEngine.group_limit
  ix,                 \* the Whoosh index: sequence of stored entries
  chunk_hashes,       \* row -> chunk_hash of the loaded matrix
  embeddings_normed,  \* row -> normalized vector [v, n2] standing for v/sqrt(n2)
  hash_to_chunkid,    \* chunk_hash -> chunk_id
  pc,                 \* "ready" | "done"
  query,              \* inputs of the search call
  kw_results,         \* result of _keyword_search
  sem_results,        \* result of _semantic_search
  fused_pairs,        \* result of _rrf_fusion
  outcome,            \* "none" | "keyword_only" | "fused" | "raised"
  result,             \* the list returned by search
  TIKTOKEN_AVAILABLE, \* lib/utils/tokens.py: whether tiktoken was importable
  XXHASH_AVAILABLE,   \* lib/utils/hashing.py: whether xxhash was importable
  text,               \* the document body handed to the chunker
  max_tokens,         \* the max_tokens argument of chunk_document
  runs,               \* doc_id -> the last chunk_document call made for it
  index_exists,       \* whether the index directory holds a Whoosh index
  embedding_meta,     \* doc_id -> embedding_meta.text.chunk_hashes of the record
  last_run,           \* the last tool run and what it did
  indexed_store,      \* the chunk files as the last index build read them
  ops,                \* number of tool runs so far
  records,            \* record store: the records in the order they are loaded
  link_run,           \* the last run on the record store and what it did
  edits,              \* number of ingests so far
  scoring,            \* the last call of compute_relevance_score
  disk,               \* file name -> the content of the file on disk
  save,               \* the writing process: its job, its position, what it writes
  observed,           \* what the concurrent reader got from its last read
  ingested,           \* the last call of create_record
  handlers,           \* ingest worker: on_created handler -> its position
  tracker,            \* ingest worker: the files table of the state database
  lockfile,           \* ingest worker: whether the lock file of the path exists
  dispatches,         \* ingest worker: the calls of dispatch made so far
  inbox               \* ingest worker: whether the file is at its path in the inbox

searchVars == <<chunks_dir, emb_dir, embed_fn, group_limit, ix, chunk_hashes,
                embeddings_normed, hash_to_chunkid, pc, query, kw_results,
                sem_results, fused_pairs, outcome, result>>

chunkVars == <<TIKTOKEN_AVAILABLE, XXHASH_AVAILABLE, text, max_tokens, runs>>

storeVars == <<index_exists, embedding_meta, last_run, indexed_store, ops>>

linkVars == <<records, link_run, edits>>

relevanceVars == <<scoring>>

fileVars == <<disk, save, observed>>

ingestVars == <<ingested>>

workerVars == <<handlers, tracker, lockfile, dispatches, inbox>>

vars == <<searchVars, chunkVars, storeVars, linkVars, relevanceVars, fileVars,
          ingestVars, workerVars>>

\* values of the variables of a tool that has not run
NoToolRun ==
  [tool |-> "none", doc_id |-> 0, force |-> FALSE, existing |-> {},
   calls |-> <<>>, saved |-> <<>>, rebuild |-> FALSE, mode |-> "none",
   indexed |-> <<>>, unchanged |-> FALSE]

StoreToolsIdle ==
  /\ index_exists = TRUE
  /\ embedding_meta = <<>>
  /\ last_run = NoToolRun
  /\ indexed_store = <<>>
  /\ ops = 0

NoLinkRun == [tool |-> "none", outcome |-> "none", calls |-> <<>>]

LinkToolIdle ==
  /\ records = <<>>
  /\ link_run = NoLinkRun
  /\ edits = 0

NoScoring ==
  [called |-> FALSE, scorer |-> "none", recency |-> 0, links |-> 0,
   quality |-> 0, user |-> 0, weights |-> <<0, 0, 0, 0>>, relevance |-> 0]

RelevanceToolIdle == scoring = NoScoring

NoSave ==
  [job |-> "none", pc |-> "idle", queue |-> <<>>, file |-> "none", opened |-> FALSE,
   pending |-> <<>>, before |-> <<>>, after |-> <<>>]

NoRead == [file |-> "none", raw |-> <<>>, valid |-> FALSE, during |-> "none"]

FileToolsIdle ==
  /\ disk = <<>>
  /\ save = NoSave
  /\ observed = NoRead

NoIngest ==
  [called |-> FALSE, module |-> "none", date_created |-> [some |-> FALSE, at |-> 0],
   st_ctime |-> 0, st_mtime |-> 0, created |-> 0, updated |-> 0]

IngestToolIdle == ingested = NoIngest

WorkerIdle ==
  /\ handlers = <<>>
  /\ tracker = <<>>
  /\ lockfile = FALSE
  /\ dispatches = <<>>
  /\ inbox = FALSE

\* ------------------------------------------------------------------
\* Corpora: chunk stores and embedding directories the engine is built on
\* ------------------------------------------------------------------
DocIds == {1, 2}

\* A chunk text is a sequence of tokens: a plain word, a wiki-link
\* [[target]] or a wiki-link [[target|display]].
Plain(w) == [link |-> FALSE, target |-> "", display |-> w]

WikiLink(t, d) == [link |-> TRUE, target |-> t, display |-> d]

\* the chunk text with a given hash
TextOf(h) == CASE h = 1 -> <<Plain("oven")>>
               [] h = 2 -> <<Plain("pizza"), WikiLink("dough", "")>>
               [] h = 3 -> <<WikiLink("dough", "recipe"), Plain("salt")>>
               [] OTHER -> <<Plain("salt")>>

\* the level-1 heading a chunk stands under, "" for none
SectionOf(h) == IF h % 2 = 0 THEN <<Plain("kitchen")>> ELSE <<>>

MkChunk(d, h, i) ==
  [chunk_id |-> <<d, h>>, doc_id |-> d, chunk_hash |-> h, chunk_index |-> i,
   text |-> TextOf(h), section |-> SectionOf(h)]

MkChunkFile(d, hs) == [i \in 1..Len(hs) |-> MkChunk(d, hs[i], i - 1)]

MkStore(hs1, hs2) == [d \in DocIds |-> IF d = 1 THEN MkChunkFile(1, hs1) ELSE MkChunkFile(2, hs2)]

\* a long document next to a short one; two documents sharing a chunk text;
\* a document that repeats a chunk text
ChunkStores ==
  { MkStore(<<1, 2, 3>>, <<4>>),
    MkStore(<<1, 2>>, <<1, 3>>),
    MkStore(<<1, 1, 2>>, <<3>>) }

StoreHashes(store) == UNION {{store[d][i].chunk_hash : i \in DOMAIN store[d]} : d \in DocIds}

\* the raw vector the provider returned for the text with a given hash
VecOf(h) == CASE h = 1 -> <<2, 0>>
              [] h = 2 -> <<1, 1>>
              [] h = 3 -> <<0, 3>>
              [] OTHER -> <<0, 0>>

\* embedding directories: one vector file per hash of the store, no file at
\* all, or the files of the odd hashes only
EmbDirs(store) ==
  { [h \in S |-> VecOf(h)] :
      S \in {StoreHashes(store), {}, {h \in StoreHashes(store) : h % 2 = 1}} }

\* the order in which a directory is listed (glob): ascending id
RECURSIVE SortedSeq(_)
SortedSeq(S) ==
  IF S = {} THEN <<>>
  ELSE LET m == CHOOSE x \in S : \A y \in S : x <= y
       IN <<m>> \o SortedSeq(S \ {m})

\* ------------------------------------------------------------------
\* Engine construction
\* ------------------------------------------------------------------
\* every line of every chunk file is added to a fresh index (add_document)
RECURSIVE _build_or_open_chunk_index(_, _)
_build_or_open_chunk_index(store, files) ==
  IF files = <<>> THEN <<>>
  ELSE [i \in DOMAIN store[Head(files)] |->
          [chunk_id |-> store[Head(files)][i].chunk_id,
           doc_id |-> store[Head(files)][i].doc_id,
           text |-> store[Head(files)][i].text,
           section |-> store[Head(files)][i].section,
           chunk_index |-> store[Head(files)][i].chunk_index]]
       \o _build_or_open_chunk_index(store, Tail(files))

Dot(u, v) == IF Len(u) = 0 THEN 0 ELSE u[1] * v[1] + u[2] * v[2]

Norm2(v) == Dot(v, v)

\* rows divided by their norm; a zero norm is replaced by 1
_load_chunk_embeddings(dir) ==
  LET hs == SortedSeq(DOMAIN dir)
  IN [chunk_hashes |-> hs,
      embeddings_normed |->
        [i \in DOMAIN hs |->
           [v |-> dir[hs[i]],
            n2 |-> IF Norm2(dir[hs[i]]) = 0 THEN 1 ELSE Norm2(dir[hs[i]])]]]

\* hash_map[chunk_hash] = chunk_id for every line, later lines overwrite
RECURSIVE MapLines(_, _)
MapLines(m, lines) ==
  IF lines = <<>> THEN m
  ELSE LET c == Head(lines)
           m2 == [h \in DOMAIN m \cup {c.chunk_hash} |->
                    IF h = c.chunk_hash THEN c.chunk_id ELSE m[h]]
       IN MapLines(m2, Tail(lines))

RECURSIVE _build_hash_to_chunkid_map(_, _, _)
_build_hash_to_chunkid_map(m, store, files) ==
  IF files = <<>> THEN m
  ELSE _build_hash_to_chunkid_map(MapLines(m, store[Head(files)]), store, Tail(files))

EmptyMap == [h \in {} |-> <<0, 0>>]

\* ------------------------------------------------------------------
\* SearchEngine._keyword_search
\* ------------------------------------------------------------------
\* bm25 is the ranking Whoosh computes for the query text: index entries
\* (by position in the index) in descending BM25 score
_keyword_search(index, bm25, limit) ==
  LET top == Take(bm25, limit)
  IN [r \in DOMAIN top |->
        [chunk_id |-> index[top[r]].chunk_id,
         doc_id |-> index[top[r]].doc_id,
         chunk_index |-> index[top[r]].chunk_index,
         score |-> Some(Len(bm25) + 1 - r, 1)]]

\* ------------------------------------------------------------------
\* _cosine_similarity and SearchEngine._semantic_search
\* ------------------------------------------------------------------
\* a similarity num/sqrt(d2); all zeros when the query norm is zero
_cosine_similarity(query_vec, doc_mat_normed) ==
  IF Len(doc_mat_normed) = 0 THEN <<>>
  ELSE IF Norm2(query_vec) = 0
       THEN [i \in DOMAIN doc_mat_normed |-> [num |-> 0, d2 |-> 1]]
       ELSE [i \in DOMAIN doc_mat_normed |->
               [num |-> Dot(doc_mat_normed[i].v, query_vec),
                d2 |-> doc_mat_normed[i].n2 * Norm2(query_vec)]]

SimLess(x, y) == x.num * Abs(x.num) * y.d2 < y.num * Abs(y.num) * x.d2

\* the index orders np.argsort may return: ascending similarity, rows of
\* equal similarity in any order (the default sort kind is not stable)
ArgSorts(sims) ==
  {p \in [DOMAIN sims -> DOMAIN sims] :
     /\ \A i, j \in DOMAIN sims : i # j => p[i] # p[j]
     /\ \A i, j \in DOMAIN sims : i < j => ~SimLess(sims[p[j]], sims[p[i]])}

RECURSIVE SemHits(_, _, _, _)
SemHits(top_idx, sims, hashes, hmap) ==
  IF top_idx = <<>> THEN <<>>
  ELSE LET idx == Head(top_idx)
           chunk_hash == hashes[idx]
           rest == SemHits(Tail(top_idx), sims, hashes, hmap)
       IN IF chunk_hash \notin DOMAIN hmap THEN rest
          ELSE <<[chunk_id |-> hmap[chunk_hash],
                  doc_id |-> hmap[chunk_hash][1],
                  chunk_hash |-> chunk_hash,
                  score |-> Some(sims[idx].num, sims[idx].d2)]>> \o rest

_semantic_search(query_vec, limit, argsort, mat, hashes, hmap) ==
  IF Len(mat) = 0 THEN <<>>
  ELSE LET sims == _cosine_similarity(query_vec, mat)
           top_idx == Take(Reverse(argsort), limit)
       IN SemHits(top_idx, sims, hashes, hmap)

\* ------------------------------------------------------------------
\* SearchEngine._rrf_fusion
\* ------------------------------------------------------------------
\* scores is the dict in insertion order: a sequence of <<chunk_id, numerator>>
ScoresAdd(scores, chunk_id, contrib) ==
  IF \E i \in DOMAIN scores : scores[i][1] = chunk_id
  THEN [i \in DOMAIN scores |->
          IF scores[i][1] = chunk_id THEN <<chunk_id, scores[i][2] + contrib>>
          ELSE scores[i]]
  ELSE Append(scores, <<chunk_id, contrib>>)

\* a contribution that takes the 0-based rank for the rank
RrfContribZeroBased(r, D) == D \div (rrf_k + r - 1)

\* contrib = 1.0 / (rrf_k + rank + 1) for the 0-based rank, that is
\* 1 / (rrf_k + r) for the 1-based position r; scaled by D
RrfContrib(r, D) == D \div (rrf_k + r)

RECURSIVE RankLoop(_, _, _, _)
RankLoop(scores, results, r, D) ==
  IF r > Len(results) THEN scores
  ELSE RankLoop(ScoresAdd(scores, results[r].chunk_id, RrfContrib(r, D)), results, r + 1, D)

RECURSIVE ListsLoop(_, _, _)
ListsLoop(scores, results_lists, D) ==
  IF results_lists = <<>> THEN scores
  ELSE ListsLoop(RankLoop(scores, Head(results_lists), 1, D), Tail(results_lists), D)

\* sorted(scores.items(), key = score, reverse = True): stable, so equal scores
\* keep their insertion order
RECURSIVE SortedByScore(_)
SortedByScore(items) ==
  IF items = <<>> THEN <<>>
  ELSE LET i == CHOOSE a \in DOMAIN items :
                  /\ \A b \in DOMAIN items : items[b][2] <= items[a][2]
                  /\ \A b \in DOMAIN items : b < a => items[b][2] < items[a][2]
       IN <<items[i]>> \o SortedByScore(SubSeq(items, 1, i - 1) \o SubSeq(items, i + 1, Len(items)))

RrfScale(results_lists) ==
  LCMUpTo(rrf_k, MaxOf(Len(results_lists[1]), Len(results_lists[2])))

\* a fusion that sorts without reverse = True
_rrf_fusion_ascending(results_lists, top_k) ==
  LET D == RrfScale(results_lists)
      sorted_chunks == Reverse(SortedByScore(ListsLoop(<<>>, results_lists, D)))
      top == Take(sorted_chunks, top_k)
  IN [i \in DOMAIN top |-> [chunk_id |-> top[i][1], rrf_score |-> Some(top[i][2], D)]]

_rrf_fusion(results_lists, top_k) ==
  LET D == RrfScale(results_lists)
      sorted_chunks == SortedByScore(ListsLoop(<<>>, results_lists, D))
      top == Take(sorted_chunks, top_k)
  IN [i \in DOMAIN top |-> [chunk_id |-> top[i][1], rrf_score |-> Some(top[i][2], D)]]

\* ------------------------------------------------------------------
\* SearchEngine._apply_grouping
\* ------------------------------------------------------------------
\* {r["chunk_id"]: r for r in results}: the last hit of a chunk_id wins
InDict(results, chunk_id) == \E i \in DOMAIN results : results[i].chunk_id = chunk_id

DictGet(results, chunk_id) ==
  results[CHOOSE i \in DOMAIN results :
            /\ results[i].chunk_id = chunk_id
            /\ \A j \in DOMAIN results : results[j].chunk_id = chunk_id => j <= i]

GroupDocId(chunk_id, kw, sem) ==
  IF InDict(kw, chunk_id) THEN DictGet(kw, chunk_id).doc_id
  ELSE IF InDict(sem, chunk_id) THEN DictGet(sem, chunk_id).doc_id
  ELSE chunk_id[1]

\* doc_groups in insertion order: a sequence of [doc_id, chunks]
RECURSIVE GroupLoop(_, _, _, _, _)
GroupLoop(doc_groups, pairs, kw, sem, limit) ==
  IF pairs = <<>> THEN doc_groups
  ELSE LET doc_id == GroupDocId(Head(pairs).chunk_id, kw, sem)
           g1 == IF \E i \in DOMAIN doc_groups : doc_groups[i].doc_id = doc_id
                 THEN doc_groups
                 ELSE Append(doc_groups, [doc_id |-> doc_id, chunks |-> <<>>])
           g2 == [i \in DOMAIN g1 |->
                    IF g1[i].doc_id = doc_id /\ Len(g1[i].chunks) < limit
                    THEN [g1[i] EXCEPT !.chunks = Append(@, Head(pairs))]
                    ELSE g1[i]]
       IN GroupLoop(g2, Tail(pairs), kw, sem, limit)

FinalHit(doc_id, pair, kw, sem) ==
  LET bm25 == IF InDict(kw, pair.chunk_id) THEN DictGet(kw, pair.chunk_id).score ELSE None
      semantic == IF InDict(sem, pair.chunk_id) THEN DictGet(sem, pair.chunk_id).score ELSE None
  IN [chunk_id |-> pair.chunk_id,
      doc_id |-> doc_id,
      rrf_score |-> pair.rrf_score,
      bm25 |-> bm25,
      semantic |-> semantic,
      source |-> IF bm25.some /\ semantic.some THEN "hybrid"
                 ELSE IF bm25.some THEN "keyword" ELSE "semantic",
      chunk_index |-> IF InDict(kw, pair.chunk_id)
                      THEN DictGet(kw, pair.chunk_id).chunk_index ELSE 0]

\* the groups are flattened document by document
RECURSIVE Flatten(_, _, _)
Flatten(doc_groups, kw, sem) ==
  IF doc_groups = <<>> THEN <<>>
  ELSE [i \in DOMAIN Head(doc_groups).chunks |->
          FinalHit(Head(doc_groups).doc_id, Head(doc_groups).chunks[i], kw, sem)]
       \o Flatten(Tail(doc_groups), kw, sem)

_apply_grouping(pairs, kw, sem, limit) ==
  Flatten(GroupLoop(<<>>, pairs, kw, sem, limit), kw, sem)

\* ------------------------------------------------------------------
\* SearchEngine.__init__ and SearchEngine.search
\* ------------------------------------------------------------------
\* what embed_fn returns for a query text: a zero-length vector (empty
\* text), or a vector of the model's dimension
QueryVecs == {<<>>, <<0, 0>>, <<1, 0>>, <<0, 1>>, <<1, 1>>}

NoQuery == [k |-> 0, bm25 |-> <<>>, provider |-> "unused", vec |-> <<>>, argsort |-> <<>>]

InitSearch ==
  /\ chunks_dir \in ChunkStores
  /\ emb_dir \in EmbDirs(chunks_dir)
  /\ embed_fn \in {"None", "fn"}
  /\ group_limit \in 1..MaxGroupLimit
  /\ ix = _build_or_open_chunk_index(chunks_dir, SortedSeq(DocIds))
  /\ chunk_hashes = _load_chunk_embeddings(emb_dir).chunk_hashes
  /\ embeddings_normed = _load_chunk_embeddings(emb_dir).embeddings_normed
  /\ hash_to_chunkid = _build_hash_to_chunkid_map(EmptyMap, chunks_dir, SortedSeq(DocIds))
  /\ pc = "ready"
  /\ query = NoQuery
  /\ kw_results = <<>>
  /\ sem_results = <<>>
  /\ fused_pairs = <<>>
  /\ outcome = "none"
  /\ result = <<>>
  /\ TIKTOKEN_AVAILABLE = FALSE
  /\ XXHASH_AVAILABLE = FALSE
  /\ text = <<>>
  /\ max_tokens = 0
  /\ runs = <<>>
  /\ StoreToolsIdle
  /\ LinkToolIdle
  /\ RelevanceToolIdle
  /\ FileToolsIdle
  /\ IngestToolIdle
  /\ WorkerIdle

EngineUnchanged ==
  UNCHANGED <<chunks_dir, emb_dir, embed_fn, group_limit, ix, chunk_hashes,
              embeddings_normed, hash_to_chunkid, chunkVars, storeVars,
              linkVars, relevanceVars, fileVars, ingestVars, workerVars>>

KeywordOnlyHit(r) ==
  [chunk_id |-> r.chunk_id,
   doc_id |-> r.doc_id,
   rrf_score |-> None,
   bm25 |-> r.score,
   semantic |-> None,
   source |-> "keyword",
   chunk_index |-> r.chunk_index]

\* search, return at line 410: no embed_fn or no embeddings loaded
SearchKeywordOnly(k, bm25) ==
  /\ pc = "ready"
  /\ embed_fn = "None" \/ Len(embeddings_normed) = 0
  /\ LET kw == _keyword_search(ix, bm25, max_keyword_hits)
     IN /\ kw_results' = kw
        /\ result' = [i \in DOMAIN Take(kw, k) |-> KeywordOnlyHit(kw[i])]
  /\ query' = [NoQuery EXCEPT !.k = k, !.bm25 = bm25]
  /\ sem_results' = <<>>
  /\ fused_pairs' = <<>>
  /\ outcome' = "keyword_only"
  /\ pc' = "done"
  /\ EngineUnchanged

\* search, line 424: the call of embed_fn raises and nothing catches it
SearchEmbedRaises(k, bm25) ==
  /\ pc = "ready"
  /\ ~(embed_fn = "None" \/ Len(embeddings_normed) = 0)
  /\ kw_results' = _keyword_search(ix, bm25, max_keyword_hits)
  /\ query' = [NoQuery EXCEPT !.k = k, !.bm25 = bm25, !.provider = "raises"]
  /\ sem_results' = <<>>
  /\ fused_pairs' = <<>>
  /\ result' = <<>>
  /\ outcome' = "raised"
  /\ pc' = "done"
  /\ EngineUnchanged

\* search, lines 424-437: embed, semantic search, fusion, grouping, [:k]
SearchFused(k, bm25, query_vec, argsort) ==
  /\ pc = "ready"
  /\ ~(embed_fn = "None" \/ Len(embeddings_normed) = 0)
  /\ argsort \in ArgSorts(_cosine_similarity(query_vec, embeddings_normed))
  /\ LET kw == _keyword_search(ix, bm25, max_keyword_hits)
         sem == _semantic_search(query_vec, max_semantic_hits, argsort,
                                 embeddings_normed, chunk_hashes, hash_to_chunkid)
         fused == _rrf_fusion(<<kw, sem>>, k * 5)
         final_results == _apply_grouping(fused, kw, sem, group_limit)
     IN /\ kw_results' = kw
        /\ sem_results' = sem
        /\ fused_pairs' = fused
        /\ result' = Take(final_results, k)
  /\ query' = [k |-> k, bm25 |-> bm25, provider |-> "ok", vec |-> query_vec,
               argsort |-> argsort]
  /\ outcome' = "fused"
  /\ pc' = "done"
  /\ EngineUnchanged

Bm25Rankings == {r \in Rankings(DOMAIN ix, MaxKwHits) : NoRepeat(r)}

NextSearch ==
  \/ /\ pc = "ready"
     /\ \E k \in 1..MaxK, bm25 \in Bm25Rankings : SearchKeywordOnly(k, bm25)
  \/ /\ pc = "ready"
     /\ \E k \in 1..MaxK, bm25 \in Bm25Rankings : SearchEmbedRaises(k, bm25)
  \/ /\ pc = "ready"
     /\ \E query_vec \in QueryVecs :
          \E argsort \in ArgSorts(_cosine_similarity(query_vec, embeddings_normed)) :
            \E k \in 1..MaxK, bm25 \in Bm25Rankings :
              SearchFused(k, bm25, query_vec, argsort)

Spec == InitSearch /\ [][NextSearch]_vars

\* ------------------------------------------------------------------
\* Properties of the search engine
\* ------------------------------------------------------------------
Occurs(L, c) == Cardinality({i \in DOMAIN L : L[i].chunk_id = c})

RankIn(L, c) == CHOOSE i \in DOMAIN L : L[i].chunk_id = c

IdLess(a, b) == a[1] < b[1] \/ (a[1] = b[1] /\ a[2] < b[2])

DocCount(hits, d) == Cardinality({i \in DOMAIN hits : hits[i].doc_id = d})

\* C1: in hybrid mode the returned hits are in descending rrf_score order.
C1_ResultOrderedByRrf ==
  outcome = "fused" =>
    \A i \in 1..(Len(result) - 1) :
      result[i].rrf_score.num >= result[i + 1].rrf_score.num

\* C2: on both return paths of search, no doc_id occurs in more than
\* group_limit returned hits.
C2_GroupLimitEveryPath ==
  outcome \in {"fused", "keyword_only"} =>
    \A d \in DocIds : DocCount(result, d) <= group_limit

\* C3: when embed_fn is None, no embeddings are loaded, the embed_fn call
\* fails, or embed_fn returns a zero-length vector, search returns exactly the
\* first k keyword hits in keyword order, each with source keyword and no
\* semantic score.
ProviderUnavailable ==
  \/ embed_fn = "None"
  \/ Len(embeddings_normed) = 0
  \/ query.provider = "raises"
  \/ query.provider = "ok" /\ Len(query.vec) = 0

C3_FallsThroughToKeywordOnly ==
  (pc = "done" /\ ProviderUnavailable) =>
    /\ Len(result) = MinOf(query.k, Len(kw_results))
    /\ \A i \in DOMAIN result :
         /\ result[i].chunk_id = kw_results[i].chunk_id
         /\ result[i].source = "keyword"
         /\ ~result[i].semantic.some

\* C4: every fused chunk whose rank in each input list is defined (it occurs
\* at most once per list) has the score sum over the lists containing it of
\* 1 / (rrf_k + r), r its 1-based rank; an absent list contributes nothing.
RankShare(L, c, D) == IF Occurs(L, c) = 0 THEN 0 ELSE D \div (rrf_k + RankIn(L, c))

OutranksInBoth(x, y) ==
  /\ Occurs(kw_results, x) = 1 /\ Occurs(kw_results, y) = 1
  /\ Occurs(sem_results, x) = 1 /\ Occurs(sem_results, y) = 1
  /\ RankIn(kw_results, x) < RankIn(kw_results, y)
  /\ RankIn(sem_results, x) < RankIn(sem_results, y)

C6_TiesByChunkId ==
  outcome = "fused" =>
    /\ \A a, b \in DOMAIN fused_pairs :
         (a < b /\ fused_pairs[a].rrf_score = fused_pairs[b].rrf_score) =>
           IdLess(fused_pairs[a].chunk_id, fused_pairs[b].chunk_id)
    /\ \A a, b \in DOMAIN result :
         (a < b /\ result[a].rrf_score = result[b].rrf_score) =>
           IdLess(result[a].chunk_id, result[b].chunk_id)

\* C7: hybrid search returns the first k hits accepted when the complete
\* score-sorted fused list is walked with the per-document limit.
RECURSIVE Survivors(_, _, _)
Survivors(accepted, pairs, limit) ==
  IF pairs = <<>> THEN accepted
  ELSE LET d == GroupDocId(Head(pairs).chunk_id, kw_results, sem_results)
           n == Cardinality({i \in DOMAIN accepted :
                              GroupDocId(accepted[i].chunk_id, kw_results, sem_results) = d})
       IN Survivors(IF n < limit THEN Append(accepted, Head(pairs)) ELSE accepted,
                    Tail(pairs), limit)

C7_FirstKSurvivors ==
  outcome = "fused" =>
    LET whole == _rrf_fusion(<<kw_results, sem_results>>,
                             Len(kw_results) + Len(sem_results))
        expected == Take(Survivors(<<>>, whole, group_limit), query.k)
    IN /\ Len(result) = Len(expected)
       /\ \A i \in DOMAIN result : result[i].chunk_id = expected[i].chunk_id

\* C13: no hit of _semantic_search is a chunk whose stored vector is the
\* zero vector, whatever the query vector and also when fewer chunks than the
\* limit have a positive similarity.
C13_ZeroVectorNeverRanks ==
  outcome = "fused" =>
    \A i \in DOMAIN sem_results :
      Norm2(emb_dir[sem_results[i].chunk_hash]) # 0

\* the row of the loaded matrix a semantic hit was read from
RowOf(hit) == CHOOSE r \in DOMAIN chunk_hashes : chunk_hashes[r] = hit.chunk_hash

SameSim(a, b) == a.num * Abs(a.num) * b.den = b.num * Abs(b.num) * a.den

\* C27: of two semantic hits with equal similarity the one read from the
\* smaller row index of the loaded matrix comes first.
C27_SemanticTiesByRowIndex ==
  outcome = "fused" =>
    \A i, j \in DOMAIN sem_results :
      (i < j /\ SameSim(sem_results[i].score, sem_results[j].score)) =>
        RowOf(sem_results[i]) < RowOf(sem_results[j])

\* C29: after a semantic search over fewer rows than the limit, every chunk
\* line of the store whose hash has a stored vector is among the semantic
\* hits under its own chunk_id and doc_id, also when two documents share
\* the hash.
C29_SharedHashReachableForBothDocs ==
  (outcome = "fused" /\ Len(chunk_hashes) <= max_semantic_hits) =>
    \A d \in DocIds :
      \A i \in DOMAIN chunks_dir[d] :
        chunks_dir[d][i].chunk_hash \in DOMAIN emb_dir =>
          \E j \in DOMAIN sem_results :
            /\ sem_results[j].chunk_id = chunks_dir[d][i].chunk_id
            /\ sem_results[j].doc_id = d

\* ==================================================================
\* The chunker (.pkms/lib/chunking/hybrid.py)
\* ==================================================================
\* A text is a sequence of elements.  An element is a heading line
\* (h = level, t = title) or a sentence ending in a terminator (h = 0,
\* t = its wording, w = its number of whitespace-separated words); sep is
\* what separates it from the element before it: "nn" a blank line, "sp" a
\* space, "" nothing (first element of a stripped text).  A heading line
\* stands in a paragraph of its own and counts two words ("#" and the title).
MaxElems == 4          \* a document has at most MaxElems elements

min_chunk_tokens == 20

Elem(h, t, w, sep) == [h |-> h, t |-> t, w |-> w, sep |-> sep]

HeadingElems == {Elem(1, "A", 2, "nn"), Elem(2, "B", 2, "nn"), Elem(3, "C", 2, "nn")}

SentenceElems == {Elem(0, "s", w, sep) : w \in {3, 16, 30}, sep \in {"nn", "sp"}}

RECURSIVE TextsOfLen(_)
TextsOfLen(n) ==
  IF n = 0 THEN {<<>>}
  ELSE {Append(t, e) : t \in TextsOfLen(n - 1), e \in HeadingElems \cup SentenceElems}

\* the first element follows nothing; a sentence that follows a heading line
\* starts a new paragraph
WellFormedText(t) ==
  /\ t # <<>> => t[1].sep = "nn"
  /\ \A i \in 2..Len(t) : (t[i - 1].h > 0) => t[i].sep = "nn"

\* text.strip()
Strip(t) == IF t = <<>> THEN <<>> ELSE [t EXCEPT ![1].sep = ""]

Documents == {Strip(t) : t \in {u \in UNION {TextsOfLen(n) : n \in 0..MaxElems} : WellFormedText(u)}}

\* sep.join(pieces) for non-empty pieces
RECURSIVE Join(_, _)
Join(pieces, sep) ==
  IF pieces = <<>> THEN <<>>
  ELSE IF Len(pieces) = 1 THEN pieces[1]
  ELSE pieces[1] \o [Join(Tail(pieces), sep) EXCEPT ![1].sep = sep]

RECURSIVE Words(_)
Words(t) == IF t = <<>> THEN 0 ELSE Head(t).w + Words(Tail(t))

\* the BPE tokenizer, represented by one token per word, one per sentence
\* terminator and one per blank line
RECURSIVE BpeTokens(_)
BpeTokens(t) ==
  IF t = <<>> THEN 0
  ELSE Head(t).w + (IF Head(t).h = 0 THEN 1 ELSE 0)
       + (IF Head(t).sep = "nn" THEN 1 ELSE 0) + BpeTokens(Tail(t))

\* len(tokenizer.encode(text)), or int(len(text.split()) * 1.3)
count_tokens(t) ==
  IF TIKTOKEN_AVAILABLE THEN BpeTokens(t) ELSE (13 * Words(t)) \div 10

\* ------------------------------------------------------------------
\* compute_chunk_hash
\* ------------------------------------------------------------------
\* The digests are scaled down: 20 bits instead of 64 (xxh64) or 256
\* (sha256), of which the leading 15 bits are kept, as the first 12 of the
\* 16 hex characters of xxh64 are.
ElemCode(e) ==
  e.h * 1000 + e.w * 10
  + (CASE e.sep = "nn" -> 2 [] e.sep = "sp" -> 1 [] OTHER -> 0)
  + (CASE e.t = "A" -> 100 [] e.t = "B" -> 200 [] e.t = "C" -> 300 [] OTHER -> 0)

RECURSIVE Digest(_, _, _)
Digest(t, acc, prime) ==
  IF t = <<>> THEN acc
  ELSE Digest(Tail(t), (acc * prime + ElemCode(Head(t))) % (2 ^ 20), prime)

compute_chunk_hash(t) ==
  IF XXHASH_AVAILABLE
  THEN Digest(t, 7, 31) \div (2 ^ 5)
  ELSE Digest(t, 11, 37) \div (2 ^ 5)

\* ------------------------------------------------------------------
\* HierarchicalChunker.split_by_headings
\* ------------------------------------------------------------------
\* positions of the heading lines, in text order
RECURSIVE HeadingStarts(_, _)
HeadingStarts(t, i) ==
  IF i > Len(t) THEN <<>>
  ELSE (IF t[i].h > 0 THEN <<i>> ELSE <<>>) \o HeadingStarts(t, i + 1)

RECURSIVE HeadingLoop(_, _, _, _, _)
HeadingLoop(t, headings, i, current_h1, current_h2) ==
  IF i > Len(headings) THEN <<>>
  ELSE LET start_pos == headings[i]
           end_pos == IF i + 1 <= Len(headings) THEN headings[i + 1] - 1 ELSE Len(t)
           level == t[start_pos].h
           h1 == IF level = 1 THEN t[start_pos].t ELSE current_h1
           h2 == IF level = 1 THEN "None"
                 ELSE IF level = 2 THEN t[start_pos].t ELSE current_h2
       IN <<[text |-> Strip(SubSeq(t, start_pos, end_pos)),
             section |-> h1, subsection |-> h2]>>
          \o HeadingLoop(t, headings, i + 1, h1, h2)

split_by_headings(t) ==
  LET headings == HeadingStarts(t, 1)
  IN IF headings = <<>>
     THEN <<[text |-> Strip(t), section |-> "None", subsection |-> "None"]>>
     ELSE HeadingLoop(t, headings, 1, "None", "None")

\* ------------------------------------------------------------------
\* HierarchicalChunker.split_large_section
\* ------------------------------------------------------------------
\* re.split(r"\n\n+", text), every paragraph stripped
RECURSIVE Paragraphs(_)
Paragraphs(t) ==
  IF t = <<>> THEN <<>>
  ELSE LET rest == Paragraphs(Tail(t))
       IN IF rest # <<>> /\ Head(rest)[1].sep = "sp"
          THEN <<<<Head(t)>> \o Head(rest)>> \o Tail(rest)
          ELSE <<<<Head(t)>>>> \o rest

StripAll(pieces) == [i \in DOMAIN pieces |-> Strip(pieces[i])]

\* re.split(r"(?<=[.!?])\s+", para)
Sentences(para) == [i \in DOMAIN para |-> Strip(<<para[i]>>)]

MkPiece(t, section) ==
  [text |-> t, section |-> section.section, subsection |-> section.subsection]

\* the flush of lines 138-152 and 158-172, followed by the append
PackStep(st, piece, joiner, section, limit) ==
  LET piece_tokens == count_tokens(piece)
      flush == st.current_tokens + piece_tokens > limit /\ st.current_chunk # <<>>
      chunks1 == IF flush
                 THEN Append(st.chunks, MkPiece(Join(st.current_chunk, joiner), section))
                 ELSE st.chunks
      kept == IF ~flush THEN st.current_chunk
              ELSE IF Len(st.current_chunk) > 1
                   THEN <<st.current_chunk[Len(st.current_chunk)]>>
                   ELSE <<>>
      kept_tokens == IF ~flush THEN st.current_tokens
                     ELSE IF Len(st.current_chunk) > 1
                          THEN count_tokens(kept[1])
                          ELSE 0
  IN [chunks |-> chunks1,
      current_chunk |-> Append(kept, piece),
      current_tokens |-> kept_tokens + piece_tokens]

RECURSIVE SentenceLoop(_, _, _, _)
SentenceLoop(st, sentences, section, limit) ==
  IF sentences = <<>> THEN st
  ELSE SentenceLoop(PackStep(st, Head(sentences), "sp", section, limit),
                    Tail(sentences), section, limit)

RECURSIVE ParagraphLoop(_, _, _, _)
ParagraphLoop(st, paragraphs, section, limit) ==
  IF paragraphs = <<>> THEN st
  ELSE LET para == Head(paragraphs)
           st2 == IF count_tokens(para) > limit
                  THEN SentenceLoop(st, Sentences(para), section, limit)
                  ELSE PackStep(st, para, "nn", section, limit)
       IN ParagraphLoop(st2, Tail(paragraphs), section, limit)

\* a split whose pieces carry the level-1 heading only
split_large_section_section_only(section, limit) ==
  IF count_tokens(section.text) <= limit THEN <<section>>
  ELSE LET top == [section EXCEPT !.subsection = "None"]
           st == ParagraphLoop([chunks |-> <<>>, current_chunk |-> <<>>, current_tokens |-> 0],
                               StripAll(Paragraphs(section.text)), top, limit)
       IN IF st.current_chunk # <<>>
          THEN Append(st.chunks, MkPiece(Join(st.current_chunk, "nn"), top))
          ELSE st.chunks

split_large_section(section, limit) ==
  IF count_tokens(section.text) <= limit THEN <<section>>
  ELSE LET st == ParagraphLoop([chunks |-> <<>>, current_chunk |-> <<>>, current_tokens |-> 0],
                               StripAll(Paragraphs(section.text)), section, limit)
       IN IF st.current_chunk # <<>>
          THEN Append(st.chunks, MkPiece(Join(st.current_chunk, "nn"), section))
          ELSE st.chunks

\* ------------------------------------------------------------------
\* HierarchicalChunker.chunk, chunk_text, chunk_document
\* ------------------------------------------------------------------
RECURSIVE SplitAll(_, _)
SplitAll(sections, limit) ==
  IF sections = <<>> THEN <<>>
  ELSE split_large_section(Head(sections), limit) \o SplitAll(Tail(sections), limit)

RECURSIVE FilterTiny(_)
FilterTiny(all_chunks) ==
  IF all_chunks = <<>> THEN <<>>
  ELSE LET c == Head(all_chunks)
           tokens == count_tokens(c.text)
       IN (IF tokens >= min_chunk_tokens
           THEN <<[text |-> c.text, section |-> c.section,
                   subsection |-> c.subsection, tokens |-> tokens]>>
           ELSE <<>>) \o FilterTiny(Tail(all_chunks))

chunk(t, limit) == FilterTiny(SplitAll(split_by_headings(t), limit))

chunk_text(t, limit) == chunk(t, limit)

\* an output chunk numbered by enumerate(chunks, 1)
OutputChunkOneBased(doc_id, language, idx, c) ==
  [doc_id |-> doc_id,
   chunk_id |-> <<doc_id, compute_chunk_hash(c.text)>>,
   chunk_hash |-> compute_chunk_hash(c.text),
   chunk_index |-> idx + 1,
   text |-> c.text,
   tokens |-> c.tokens,
   section |-> c.section,
   subsection |-> c.subsection,
   modality |-> "text",
   language |-> language]

\* an output chunk whose hash covers the chunk's position as well
OutputChunkHashOfPosition(doc_id, language, idx, c) ==
  [doc_id |-> doc_id,
   chunk_id |-> <<doc_id, (compute_chunk_hash(c.text) + idx) % (2 ^ 15)>>,
   chunk_hash |-> (compute_chunk_hash(c.text) + idx) % (2 ^ 15),
   chunk_index |-> idx,
   text |-> c.text,
   tokens |-> c.tokens,
   section |-> c.section,
   subsection |-> c.subsection,
   modality |-> "text",
   language |-> language]

OutputChunk(doc_id, language, idx, c) ==
  [doc_id |-> doc_id,
   chunk_id |-> <<doc_id, compute_chunk_hash(c.text)>>,
   chunk_hash |-> compute_chunk_hash(c.text),
   chunk_index |-> idx,
   text |-> c.text,
   tokens |-> c.tokens,
   section |-> c.section,
   subsection |-> c.subsection,
   modality |-> "text",
   language |-> language]

chunk_document(doc_id, t, language, limit) ==
  LET chunks == chunk_text(t, limit)
  IN [i \in DOMAIN chunks |-> OutputChunk(doc_id, language, i - 1, chunks[i])]

\* ------------------------------------------------------------------
\* Chunk runs: chunk_document is called for documents that hold the body text
\* ------------------------------------------------------------------
MaxTokenChoices == {30, 500}

Languages == {"en", "de"}

NoRun == [done |-> FALSE, language |-> "en", chunks |-> <<>>]

InitChunk ==
  /\ TIKTOKEN_AVAILABLE \in BOOLEAN
  /\ XXHASH_AVAILABLE \in BOOLEAN
  /\ text \in Documents
  /\ max_tokens \in MaxTokenChoices
  /\ runs = [d \in DocIds |-> NoRun]
  /\ chunks_dir = <<>>
  /\ emb_dir = <<>>
  /\ embed_fn = "None"
  /\ group_limit = 1
  /\ ix = <<>>
  /\ chunk_hashes = <<>>
  /\ embeddings_normed = <<>>
  /\ hash_to_chunkid = <<>>
  /\ pc = "off"
  /\ query = NoQuery
  /\ kw_results = <<>>
  /\ sem_results = <<>>
  /\ fused_pairs = <<>>
  /\ outcome = "none"
  /\ result = <<>>
  /\ StoreToolsIdle
  /\ LinkToolIdle
  /\ RelevanceToolIdle
  /\ FileToolsIdle
  /\ IngestToolIdle
  /\ WorkerIdle

ChunkDocument(doc_id, language) ==
  /\ ~runs[doc_id].done
  /\ runs' = [runs EXCEPT ![doc_id] =
                [done |-> TRUE, language |-> language,
                 chunks |-> chunk_document(doc_id, text, language, max_tokens)]]
  /\ UNCHANGED <<TIKTOKEN_AVAILABLE, XXHASH_AVAILABLE, text, max_tokens, searchVars,
                 storeVars, linkVars, relevanceVars,
                 fileVars, ingestVars, workerVars>>

NextChunk == \E doc_id \in DocIds, language \in Languages : ChunkDocument(doc_id, language)

SpecChunk == InitChunk /\ [][NextChunk]_vars

\* ------------------------------------------------------------------
\* Properties of the chunker
\* ------------------------------------------------------------------
Candidates == SplitAll(split_by_headings(text), max_tokens)

\* C8: every emitted chunk has at least min_chunk_tokens tokens unless all
\* candidate chunks are below the floor; a non-empty document never yields an
\* empty list, and a document below the floor as a whole yields one chunk.
C8_FloorNeverEmptiesDocument ==
  \A d \in DocIds :
    (runs[d].done /\ text # <<>>) =>
      /\ runs[d].chunks # <<>>
      /\ count_tokens(text) < min_chunk_tokens => Len(runs[d].chunks) = 1
      /\ (\E i \in DOMAIN Candidates : count_tokens(Candidates[i].text) >= min_chunk_tokens)
           => \A i \in DOMAIN runs[d].chunks : runs[d].chunks[i].tokens >= min_chunk_tokens

\* C9: the i-th chunk returned by chunk_document (from 0) has chunk_index i.
C9_ChunkIndexDense ==
  \A d \in DocIds :
    runs[d].done =>
      \A i \in DOMAIN runs[d].chunks : runs[d].chunks[i].chunk_index = i - 1

\* at least two chunks returned after a candidate below the floor was dropped
C9_Witness ==
  \E d \in DocIds :
    /\ runs[d].done
    /\ Len(runs[d].chunks) >= 2
    /\ \E i \in 1..(Len(Candidates) - 1) : count_tokens(Candidates[i].text) < min_chunk_tokens

SectionStart(k) ==
  LET headings == HeadingStarts(text, 1)
  IN IF headings = <<>> THEN 0 ELSE headings[k]

\* for every candidate chunk, the number of the section it was cut from
RECURSIVE OriginsFrom(_, _)
OriginsFrom(sections, k) ==
  IF k > Len(sections) THEN <<>>
  ELSE [i \in DOMAIN split_large_section(sections[k], max_tokens) |-> k]
       \o OriginsFrom(sections, k + 1)

Origins == OriginsFrom(split_by_headings(text), 1)

\* the candidates that pass the token floor, by their number, in order
RECURSIVE KeptFrom(_)
KeptFrom(j) ==
  IF j > Len(Candidates) THEN <<>>
  ELSE (IF count_tokens(Candidates[j].text) >= min_chunk_tokens THEN <<j>> ELSE <<>>)
       \o KeptFrom(j + 1)

Kept == KeptFrom(1)

LastOf(S) == CHOOSE x \in S : \A y \in S : y <= x

\* the title of the nearest level-1 heading at or before position p
NearestH1(p) ==
  LET S == {q \in 1..p : text[q].h = 1}
  IN IF S = {} THEN "None" ELSE text[LastOf(S)].t

\* the title of the nearest level-2 heading at or before position p that
\* follows the nearest level-1 heading
NearestH2(p) ==
  LET S1 == {q \in 1..p : text[q].h = 1}
      lo == IF S1 = {} THEN 0 ELSE LastOf(S1)
      S2 == {q \in (lo + 1)..p : text[q].h = 2}
  IN IF S2 = {} THEN "None" ELSE text[LastOf(S2)].t

\* C25: every chunk has as section the title of the nearest preceding
\* level-1 heading and as subsection the title of the nearest preceding
\* level-2 heading under it ("None" where there is none), also when it is a
\* piece of a section that was split by size.
C25_ChunkCarriesHeadingContext ==
  \A d \in DocIds :
    runs[d].done =>
      /\ Len(runs[d].chunks) = Len(Kept)
      /\ \A i \in DOMAIN runs[d].chunks :
           LET p == SectionStart(Origins[Kept[i]])
           IN /\ runs[d].chunks[i].section = NearestH1(p)
              /\ runs[d].chunks[i].subsection = NearestH2(p)

\* a chunk cut from a section under a level-2 heading that was split by size,
\* in a document where a later level-1 heading clears the subsection
C25_Witness ==
  \E d \in DocIds :
    /\ runs[d].done
    /\ \E i \in DOMAIN runs[d].chunks :
         LET k == Origins[Kept[i]]
         IN /\ count_tokens(split_by_headings(text)[k].text) > max_tokens
            /\ runs[d].chunks[i].subsection # "None"
    /\ \E q, r \in DOMAIN text : q < r /\ text[q].h = 2 /\ text[r].h = 1

\* the sentences of a chunk text, each counted on its own
RECURSIVE ElementTokens(_)
ElementTokens(t) ==
  IF t = <<>> THEN 0
  ELSE count_tokens(Strip(<<Head(t)>>)) + ElementTokens(Tail(t))

\* C26: when a section is split and each of its sentences has at most
\* max_tokens tokens, the summed token count of the elements of every piece
\* is at most max_tokens.  (The sum is taken over the sentences of the
\* piece, which is at most the sum over the paragraphs packed into it.)
C26_PackedChunkWithinMaxTokens ==
  \A d \in DocIds :
    runs[d].done =>
      \A k \in DOMAIN split_by_headings(text) :
        LET section == split_by_headings(text)[k]
            pieces == split_large_section(section, max_tokens)
        IN (/\ count_tokens(section.text) > max_tokens
            /\ \A e \in DOMAIN section.text :
                 count_tokens(Strip(<<section.text[e]>>)) <= max_tokens)
           => \A i \in DOMAIN pieces : ElementTokens(pieces[i].text) <= max_tokens

\* C28: every element of the document body occurs in the text of at least
\* one candidate chunk of the heading split.
C28_NoTextLostAtHeadingSplit ==
  \A d \in DocIds :
    runs[d].done =>
      \A e \in DOMAIN text :
        \E j \in DOMAIN Candidates :
          \E x \in DOMAIN Candidates[j].text :
            /\ Candidates[j].text[x].h = text[e].h
            /\ Candidates[j].text[x].t = text[e].t
            /\ Candidates[j].text[x].w = text[e].w

\* ==================================================================
\* The store tools: chunk runs (.pkms/tools/chunk.py), the embedder
\* (.pkms/tools/embed_index.py) and the indexer (.pkms/tools/index.py)
\* ==================================================================
\* chunks_dir, emb_dir and ix are the three stores on disk.  A document
\* without a chunk file and a document with an empty chunk file are both
\* chunks_dir[d] = <<>>: no reader tells them apart.
MaxOps == 4            \* a behaviour has at most MaxOps tool runs

\* what chunk_document returns for the versions of a document body, as the
\* hashes of its chunks: no chunk, one chunk, two chunks with wiki-links, the
\* same paragraph twice
ChunkLists == {<<>>, <<1>>, <<2, 3>>, <<1, 1>>}

\* the texts for which the embedding provider fails during a run
FailingChoices == {{}, {2}}

EmptyDir == [h \in {} |-> <<>>]

\* ------------------------------------------------------------------
\* embed_index.py
\* ------------------------------------------------------------------
RECURSIVE load_chunks(_, _)
load_chunks(store, files) ==
  IF files = <<>> THEN <<>>
  ELSE store[Head(files)] \o load_chunks(store, Tail(files))

get_existing_embeddings(dir) == DOMAIN dir

\* np.save(npy_path, vec)
SaveVec(dir, h, vec) == [x \in DOMAIN dir \cup {h} |-> IF x = h THEN vec ELSE dir[x]]

\* the loop of embed_chunks; st.calls lists the calls of get_embedding and
\* st.saved the files written, both by chunk hash
RECURSIVE EmbedLoop(_, _, _, _, _)
EmbedLoop(st, chunks, existing, force, failing) ==
  IF chunks = <<>> THEN st
  ELSE LET chunk_hash == Head(chunks).chunk_hash
           st2 == IF ~force /\ chunk_hash \in existing
                  THEN [st EXCEPT !.skipped = @ + 1]
                  ELSE IF chunk_hash \in failing
                       THEN [st EXCEPT !.calls = Append(@, chunk_hash)]
                       ELSE [st EXCEPT !.calls = Append(@, chunk_hash),
                                       !.saved = Append(@, chunk_hash),
                                       !.dir = SaveVec(@, chunk_hash, VecOf(chunk_hash)),
                                       !.embedded = @ + 1]
       IN EmbedLoop(st2, Tail(chunks), existing, force, failing)

embed_chunks(chunks, dir, force, failing) ==
  LET existing == IF force THEN {} ELSE get_existing_embeddings(dir)
  IN EmbedLoop([dir |-> dir, calls |-> <<>>, saved |-> <<>>, embedded |-> 0, skipped |-> 0],
               chunks, existing, force, failing)

RECURSIVE HashesWithVector(_, _)
HashesWithVector(lines, existing_embeddings) ==
  IF lines = <<>> THEN <<>>
  ELSE (IF Head(lines).chunk_hash \in existing_embeddings
        THEN <<Head(lines).chunk_hash>> ELSE <<>>)
       \o HashesWithVector(Tail(lines), existing_embeddings)

\* embedding_meta.text.chunk_hashes of every record that has a chunk with a
\* vector; the other records are left as they are
update_record_embedding_meta(meta, store, dir) ==
  [d \in DocIds |->
     LET doc_hashes == HashesWithVector(store[d], DOMAIN dir)
     IN IF doc_hashes = <<>> THEN meta[d] ELSE doc_hashes]

\* ------------------------------------------------------------------
\* index.py
\* ------------------------------------------------------------------
RECURSIVE _strip_wikilinks(_)
_strip_wikilinks(t) ==
  IF t = <<>> THEN <<>>
  ELSE (IF ~Head(t).link THEN <<Head(t)>>
        ELSE IF Head(t).display # "" THEN <<Plain(Head(t).display)>>
        ELSE <<>>) \o _strip_wikilinks(Tail(t))

\* the entry of chunk_data made from one line of a chunk file
ChunkDatum(c) ==
  [chunk_id |-> c.chunk_id,
   doc_id |-> c.doc_id,
   text |-> _strip_wikilinks(c.section \o c.text),
   section |-> c.section,
   chunk_index |-> c.chunk_index]

ChunkData(store, files) ==
  LET lines == load_chunks(store, files)
  IN [i \in DOMAIN lines |-> ChunkDatum(lines[i])]

_index_chunks(store, files, index, exists, rebuild) ==
  LET kept == exists /\ ~rebuild
      opened == IF kept THEN index ELSE <<>>
      mode == IF kept THEN "update" ELSE "create"
      chunk_data == ChunkData(store, files)
      existing_ids == IF mode = "update"
                      THEN {opened[i].chunk_id : i \in DOMAIN opened}
                      ELSE {}
      chunks_to_add == IF mode = "create" \/ rebuild
                       THEN chunk_data
                       ELSE SelectSeq(chunk_data, LAMBDA c : c.chunk_id \notin existing_ids)
  IN [ix |-> opened \o chunks_to_add, mode |-> mode, indexed |-> chunks_to_add]

\* the terms the analyzer of the TEXT field makes searchable
Terms(t) ==
  {t[j].display : j \in {k \in DOMAIN t : t[k].display # ""}}
  \cup {t[j].target : j \in {k \in DOMAIN t : t[k].link}}

\* ------------------------------------------------------------------
\* Tool runs
\* ------------------------------------------------------------------
InitStore ==
  /\ chunks_dir = [d \in DocIds |-> <<>>]
  /\ emb_dir = EmptyDir
  /\ ix = <<>>
  /\ index_exists = FALSE
  /\ embedding_meta = [d \in DocIds |-> <<>>]
  /\ last_run = NoToolRun
  /\ indexed_store = [d \in DocIds |-> <<>>]
  /\ ops = 0
  /\ embed_fn = "None"
  /\ group_limit = 1
  /\ chunk_hashes = <<>>
  /\ embeddings_normed = <<>>
  /\ hash_to_chunkid = EmptyMap
  /\ pc = "off"
  /\ query = NoQuery
  /\ kw_results = <<>>
  /\ sem_results = <<>>
  /\ fused_pairs = <<>>
  /\ outcome = "none"
  /\ result = <<>>
  /\ TIKTOKEN_AVAILABLE = FALSE
  /\ XXHASH_AVAILABLE = FALSE
  /\ text = <<>>
  /\ max_tokens = 0
  /\ runs = <<>>
  /\ LinkToolIdle
  /\ RelevanceToolIdle
  /\ FileToolsIdle
  /\ IngestToolIdle
  /\ WorkerIdle

StoreUnchanged ==
  UNCHANGED <<embed_fn, group_limit, pc, query, kw_results, sem_results,
              fused_pairs, outcome, result, chunkVars, linkVars, relevanceVars,
              fileVars, ingestVars, workerVars>>

\* chunk_record: the document is chunked again and save_chunks rewrites its file
ChunkRun(doc_id, hs) ==
  /\ ops < MaxOps
  /\ chunks_dir' = [chunks_dir EXCEPT ![doc_id] = MkChunkFile(doc_id, hs)]
  /\ last_run' = [NoToolRun EXCEPT !.tool = "chunk", !.doc_id = doc_id]
  /\ ops' = ops + 1
  /\ UNCHANGED <<emb_dir, ix, index_exists, embedding_meta, indexed_store,
                 chunk_hashes, embeddings_normed, hash_to_chunkid>>
  /\ StoreUnchanged

\* embed_index.main, with embed_chunks called with or without force
EmbedRun(force, failing) ==
  /\ ops < MaxOps
  /\ LET chunks == load_chunks(chunks_dir, SortedSeq(DocIds))
         st == embed_chunks(chunks, emb_dir, force, failing)
     IN IF chunks = <<>>
        THEN /\ UNCHANGED <<emb_dir, embedding_meta>>
             /\ last_run' = [NoToolRun EXCEPT !.tool = "embed", !.force = force,
                                             !.existing = DOMAIN emb_dir,
                                             !.mode = "no chunks"]
        ELSE /\ emb_dir' = st.dir
             /\ embedding_meta' =
                  update_record_embedding_meta(embedding_meta, chunks_dir, st.dir)
             /\ last_run' = [NoToolRun EXCEPT !.tool = "embed", !.force = force,
                                             !.existing = DOMAIN emb_dir,
                                             !.calls = st.calls,
                                             !.saved = st.saved,
                                             !.mode = "embedded"]
  /\ ops' = ops + 1
  /\ UNCHANGED <<chunks_dir, ix, index_exists, indexed_store,
                 chunk_hashes, embeddings_normed, hash_to_chunkid>>
  /\ StoreUnchanged

\* pkms-index build, with or without --rebuild
IndexRun(rebuild) ==
  /\ ops < MaxOps
  /\ LET run == _index_chunks(chunks_dir, SortedSeq(DocIds), ix, index_exists, rebuild)
     IN /\ ix' = run.ix
        /\ last_run' = [NoToolRun EXCEPT !.tool = "index", !.rebuild = rebuild,
                                        !.mode = run.mode,
                                        !.indexed = run.indexed,
                                        !.unchanged = index_exists /\ indexed_store = chunks_dir]
  /\ index_exists' = TRUE
  /\ indexed_store' = chunks_dir
  /\ ops' = ops + 1
  /\ UNCHANGED <<chunks_dir, emb_dir, embedding_meta,
                 chunk_hashes, embeddings_normed, hash_to_chunkid>>
  /\ StoreUnchanged

\* SearchEngine.__init__ on the stores: the index is opened, or created when
\* there is none
EngineOpen ==
  /\ ops < MaxOps
  /\ ix' = IF index_exists THEN ix
           ELSE _build_or_open_chunk_index(chunks_dir, SortedSeq(DocIds))
  /\ index_exists' = TRUE
  /\ indexed_store' = IF index_exists THEN indexed_store ELSE chunks_dir
  /\ chunk_hashes' = _load_chunk_embeddings(emb_dir).chunk_hashes
  /\ embeddings_normed' = _load_chunk_embeddings(emb_dir).embeddings_normed
  /\ hash_to_chunkid' = _build_hash_to_chunkid_map(EmptyMap, chunks_dir, SortedSeq(DocIds))
  /\ last_run' = [NoToolRun EXCEPT !.tool = "engine",
                                  !.mode = IF index_exists THEN "open" ELSE "create"]
  /\ ops' = ops + 1
  /\ UNCHANGED <<chunks_dir, emb_dir, embedding_meta>>
  /\ StoreUnchanged

NextStore ==
  \/ \E doc_id \in DocIds, hs \in ChunkLists : ChunkRun(doc_id, hs)
  \/ \E force \in BOOLEAN, failing \in FailingChoices : EmbedRun(force, failing)
  \/ \E rebuild \in BOOLEAN : IndexRun(rebuild)
  \/ EngineOpen

SpecStore == InitStore /\ [][NextStore]_vars

\* ------------------------------------------------------------------
\* Properties of the store tools
\* ------------------------------------------------------------------
CallsFor(h) == Cardinality({i \in DOMAIN last_run.calls : last_run.calls[i] = h})

\* C11: an embed run without force calls get_embedding exactly once for
\* every distinct chunk hash that had no vector file when the run started,
\* never for a hash that had one, and rewrites no file that existed.
C11_OneCallPerMissingHash ==
  (last_run.tool = "embed" /\ ~last_run.force) =>
    /\ \A h \in StoreHashes(chunks_dir) :
         CallsFor(h) = IF h \in last_run.existing THEN 0 ELSE 1
    /\ \A i \in DOMAIN last_run.saved : last_run.saved[i] \notin last_run.existing

\* C12: after an embed run that embedded the chunk files and in which no
\* call failed, the vector files are exactly the chunk hashes present in the
\* chunk files.
C12_VectorsEqualChunkHashes ==
  (last_run.tool = "embed" /\ last_run.mode = "embedded"
     /\ last_run.calls = last_run.saved) =>
    DOMAIN emb_dir = StoreHashes(chunks_dir)

HasWikiLink(t) == \E j \in DOMAIN t : t[j].link

\* the words that the chunk texts use as link targets only
LinkTargets == {"dough"}

\* C14: no text in the lexical index contains a wiki-link, and no link
\* target is a term of the index, whichever path built the index.
C14_IndexTextHasNoWikiLinks ==
  \A i \in DOMAIN ix :
    /\ ~HasWikiLink(ix[i].text)
    /\ Terms(ix[i].text) \cap LinkTargets = {}

\* C15: the index holds at most one entry per chunk_id, and an incremental
\* index run over chunk files unchanged since the last build adds no entry.
C15_IndexIdempotentByChunkId ==
  /\ \A i, j \in DOMAIN ix : ix[i].chunk_id = ix[j].chunk_id => i = j
  /\ (last_run.tool = "index" /\ ~last_run.rebuild /\ last_run.unchanged) =>
       last_run.indexed = <<>>

\* ==================================================================
\* The link rebuild (.pkms/tools/link.py)
\* ==================================================================
\* A record body is a sequence of tokens as a chunk text is; names (ids,
\* slugs, aliases, titles, link targets) are strings.
MaxEdits == 2          \* a behaviour has at most MaxEdits ingests

\* Link.type: Literal["slug", "id", "alias"]
LinkTypes == {"slug", "id", "alias"}

\* str.lower() on the names of the model
Lower(s) == CASE s = "Pizza" -> "pizza"
              [] s = "PIZZA" -> "pizza"
              [] s = "Oven" -> "oven"
              [] s = "Pizza Night" -> "pizza night"
              [] s = "01A" -> "01a"
              [] s = "01B" -> "01b"
              [] OTHER -> s

\* str.strip() on the names of the model
StripName(s) == CASE s = " pizza" -> "pizza"
                  [] OTHER -> s

MkRecord(id, slug, aliases, title) ==
  [id |-> id, slug |-> slug, aliases |-> aliases, title |-> title,
   full_text |-> <<>>, links |-> <<>>, backlinks |-> <<>>]

\* two records whose slugs, aliases and titles meet in several tiers, and
\* the same two records without aliases
Vaults ==
  { <<MkRecord("01A", "pizza", <<"Oven", "01B">>, "Pizza Night"),
      MkRecord("01B", "oven", <<"PIZZA">>, "Oven")>>,
    <<MkRecord("01A", "pizza", <<>>, "Pizza Night"),
      MkRecord("01B", "oven", <<>>, "Oven")>> }

\* the bodies a document is edited to
Bodies ==
  { <<>>,
    <<WikiLink("pizza", "")>>,
    <<WikiLink("oven", ""), WikiLink("oven", "")>>,
    <<WikiLink("Pizza", "")>>,
    <<WikiLink("Oven", "")>>,
    <<WikiLink("pizza", ""), WikiLink("Oven", "")>>,
    <<WikiLink("01B", "")>>,
    <<WikiLink("Pizza Night", "")>>,
    <<Plain("see"), WikiLink(" pizza", "the recipe"), WikiLink("nothing", "")>> }

\* ------------------------------------------------------------------
\* extract_wikilinks, build_lookup_maps, resolve_link
\* ------------------------------------------------------------------
\* the context of a link (the text around it) is represented by the
\* position of the link in the body
RECURSIVE WikilinksFrom(_, _)
WikilinksFrom(t, i) ==
  IF i > Len(t) THEN <<>>
  ELSE (IF t[i].link
        THEN <<[raw |-> t[i],
                target |-> StripName(t[i].target),
                display |-> IF t[i].display # "" THEN StripName(t[i].display)
                            ELSE StripName(t[i].target),
                context |-> i]>>
        ELSE <<>>) \o WikilinksFrom(t, i + 1)

extract_wikilinks(t) == WikilinksFrom(t, 1)

\* d[k] = v
DictPut(d, k, v) == [x \in DOMAIN d \cup {k} |-> IF x = k THEN v ELSE d[x]]

EmptyDict == [k \in {} |-> ""]

RECURSIVE AliasLoop(_, _, _)
AliasLoop(d, aliases, ulid) ==
  IF aliases = <<>> THEN d
  ELSE AliasLoop(DictPut(d, Lower(Head(aliases)), ulid), Tail(aliases), ulid)

RECURSIVE LookupLoop(_, _)
LookupLoop(lookup, recs) ==
  IF recs = <<>> THEN lookup
  ELSE LET record == Head(recs)
       IN LookupLoop([id |-> DictPut(lookup.id, record.id, record.id),
                      slug |-> DictPut(lookup.slug, record.slug, record.id),
                      alias |-> AliasLoop(lookup.alias, record.aliases, record.id),
                      title |-> DictPut(lookup.title, Lower(record.title), record.id)],
                     Tail(recs))

build_lookup_maps(recs) ==
  LookupLoop([id |-> EmptyDict, slug |-> EmptyDict, alias |-> EmptyDict, title |-> EmptyDict],
             recs)

Resolved(ulid, link_type) == [target_id |-> ulid, link_type |-> link_type]

\* a resolution that tries the aliases before the slugs
resolve_link_alias_first(target, lookup) ==
  LET target_clean == StripName(target)
      target_lower == Lower(target_clean)
  IN IF target_clean \in DOMAIN lookup.id
     THEN Resolved(lookup.id[target_clean], "id")
     ELSE IF target_lower \in DOMAIN lookup.alias
     THEN Resolved(lookup.alias[target_lower], "alias")
     ELSE IF target_clean \in DOMAIN lookup.slug
     THEN Resolved(lookup.slug[target_clean], "slug")
     ELSE IF target_lower \in DOMAIN lookup.title
     THEN Resolved(lookup.title[target_lower], "title")
     ELSE Resolved("None", "unresolved")

resolve_link(target, lookup) ==
  LET target_clean == StripName(target)
      target_lower == Lower(target_clean)
  IN IF target_clean \in DOMAIN lookup.id
     THEN Resolved(lookup.id[target_clean], "id")
     ELSE IF target_clean \in DOMAIN lookup.slug
     THEN Resolved(lookup.slug[target_clean], "slug")
     ELSE IF target_lower \in DOMAIN lookup.alias
     THEN Resolved(lookup.alias[target_lower], "alias")
     ELSE IF target_lower \in DOMAIN lookup.title
     THEN Resolved(lookup.title[target_lower], "title")
     ELSE Resolved("None", "unresolved")

\* ------------------------------------------------------------------
\* process_links
\* ------------------------------------------------------------------
MkLink(raw, type, target, resolved, context) ==
  [raw |-> raw, type |-> type, target |-> target, resolved |-> resolved,
   context |-> context]

\* whether the Link constructor accepts the value (models/link.py)
LinkValid(link) == link.type \in LinkTypes

\* the loop over the wiki-links of record i; the construction of a Link that
\* is not valid raises and ends process_links
RECURSIVE WikilinkLoop(_, _, _, _)
WikilinkLoop(st, i, wikilinks, lookup) ==
  IF wikilinks = <<>> \/ st.raised THEN st
  ELSE LET wl == Head(wikilinks)
           res == resolve_link(wl.target, lookup)
           resolved == res.target_id # "None"
           link == MkLink(wl.raw,
                          IF res.link_type # "unresolved" THEN res.link_type ELSE "slug",
                          res.target_id, resolved, wl.context)
           call == [target |-> wl.target, target_id |-> res.target_id,
                    link_type |-> res.link_type]
           st2 == IF LinkValid(link)
                  THEN [st EXCEPT !.recs[i].links = Append(@, link),
                                  !.calls = Append(@, call),
                                  !.total_links = @ + 1,
                                  !.broken_links = IF resolved THEN @ ELSE @ + 1]
                  ELSE [st EXCEPT !.calls = Append(@, call),
                                  !.broken_links = IF resolved THEN @ ELSE @ + 1,
                                  !.raised = TRUE]
       IN WikilinkLoop(st2, i, Tail(wikilinks), lookup)

RECURSIVE ForwardLoop(_, _, _)
ForwardLoop(st, i, lookup) ==
  IF i > Len(st.recs) \/ st.raised THEN st
  ELSE ForwardLoop(WikilinkLoop(st, i, extract_wikilinks(st.recs[i].full_text), lookup),
                   i + 1, lookup)

HasRecord(recs, ulid) == \E i \in DOMAIN recs : recs[i].id = ulid

RecordIndex(recs, ulid) == CHOOSE i \in DOMAIN recs : recs[i].id = ulid

RECURSIVE BacklinksOf(_, _, _)
BacklinksOf(recs, source_id, links) ==
  IF links = <<>> THEN recs
  ELSE LET link == Head(links)
           recs2 == IF link.resolved /\ link.target # "None" /\ HasRecord(recs, link.target)
                    THEN [recs EXCEPT ![RecordIndex(recs, link.target)].backlinks =
                            Append(@, MkLink(link.raw, link.type, source_id, TRUE, link.context))]
                    ELSE recs
       IN BacklinksOf(recs2, source_id, Tail(links))

RECURSIVE BacklinkLoop(_, _)
BacklinkLoop(recs, i) ==
  IF i > Len(recs) THEN recs
  ELSE BacklinkLoop(BacklinksOf(recs, recs[i].id, recs[i].links), i + 1)

process_links(recs) ==
  LET lookup == build_lookup_maps(recs)
      cleared == [i \in DOMAIN recs |-> [recs[i] EXCEPT !.links = <<>>, !.backlinks = <<>>]]
      st == ForwardLoop([recs |-> cleared, calls |-> <<>>, raised |-> FALSE,
                         total_links |-> 0, broken_links |-> 0], 1, lookup)
  IN IF st.raised THEN st ELSE [st EXCEPT !.recs = BacklinkLoop(st.recs, 1)]

\* ------------------------------------------------------------------
\* Runs on the record store
\* ------------------------------------------------------------------
InitLinks ==
  /\ records \in Vaults
  /\ link_run = NoLinkRun
  /\ edits = 0
  /\ chunks_dir = <<>>
  /\ emb_dir = <<>>
  /\ embed_fn = "None"
  /\ group_limit = 1
  /\ ix = <<>>
  /\ chunk_hashes = <<>>
  /\ embeddings_normed = <<>>
  /\ hash_to_chunkid = <<>>
  /\ pc = "off"
  /\ query = NoQuery
  /\ kw_results = <<>>
  /\ sem_results = <<>>
  /\ fused_pairs = <<>>
  /\ outcome = "none"
  /\ result = <<>>
  /\ TIKTOKEN_AVAILABLE = FALSE
  /\ XXHASH_AVAILABLE = FALSE
  /\ text = <<>>
  /\ max_tokens = 0
  /\ runs = <<>>
  /\ StoreToolsIdle
  /\ RelevanceToolIdle
  /\ FileToolsIdle
  /\ IngestToolIdle
  /\ WorkerIdle

\* ingest_file after the body of a document was edited: create_record makes
\* the record anew with the new body and no links
IngestFile(ulid, body) ==
  /\ edits < MaxEdits
  /\ records' = [records EXCEPT ![RecordIndex(records, ulid)] =
                   [@ EXCEPT !.full_text = body, !.links = <<>>, !.backlinks = <<>>]]
  /\ link_run' = [NoLinkRun EXCEPT !.tool = "ingest"]
  /\ edits' = edits + 1
  /\ UNCHANGED <<searchVars, chunkVars, storeVars, relevanceVars,
                 fileVars, ingestVars, workerVars>>

\* link.main: load_all_records, process_links, save_records; when
\* process_links raises nothing is saved
LinkRebuild ==
  /\ LET run == process_links(records)
     IN /\ records' = IF run.raised THEN records ELSE run.recs
        /\ link_run' = [tool |-> "link",
                        outcome |-> IF run.raised THEN "raised" ELSE "ok",
                        calls |-> run.calls]
  /\ UNCHANGED <<edits, searchVars, chunkVars, storeVars, relevanceVars,
                 fileVars, ingestVars, workerVars>>

NextLinks ==
  \/ \E i \in DOMAIN records, body \in Bodies : IngestFile(records[i].id, body)
  \/ LinkRebuild

SpecLinks == InitLinks /\ [][NextLinks]_vars

\* ------------------------------------------------------------------
\* Properties of the link rebuild
\* ------------------------------------------------------------------
MatchesId(t) == \E i \in DOMAIN records : records[i].id = t

MatchesSlug(t) == \E i \in DOMAIN records : records[i].slug = t

HasAlias(i, t) == \E a \in DOMAIN records[i].aliases : Lower(records[i].aliases[a]) = Lower(t)

MatchesAlias(t) == \E i \in DOMAIN records : HasAlias(i, t)

HasTitle(i, t) == Lower(records[i].title) = Lower(t)

MatchesTitle(t) == \E i \in DOMAIN records : HasTitle(i, t)

\* C16: every call of resolve_link is answered by the earliest tier that
\* the target matches: id, then exact slug, then alias without case, then
\* title without case; a target that matches no tier is unresolved.
C16_FirstTierWins ==
  \A c \in DOMAIN link_run.calls :
    LET t == StripName(link_run.calls[c].target)
        ulid == link_run.calls[c].target_id
        type == link_run.calls[c].link_type
    IN IF MatchesId(t) THEN type = "id" /\ ulid = t
       ELSE IF MatchesSlug(t)
       THEN type = "slug" /\ \E i \in DOMAIN records : records[i].id = ulid /\ records[i].slug = t
       ELSE IF MatchesAlias(t)
       THEN type = "alias" /\ \E i \in DOMAIN records : records[i].id = ulid /\ HasAlias(i, t)
       ELSE IF MatchesTitle(t)
       THEN type = "title" /\ \E i \in DOMAIN records : records[i].id = ulid /\ HasTitle(i, t)
       ELSE type = "unresolved" /\ ulid = "None"

\* one rebuild that resolved a target by its slug although an alias matches
\* it, a target by an alias although a title matches it, and a target by a
\* title
C16_Witness ==
  /\ link_run.tool = "link"
  /\ \E c \in DOMAIN link_run.calls :
       /\ link_run.calls[c].link_type = "slug"
       /\ MatchesAlias(link_run.calls[c].target)
  /\ \E c \in DOMAIN link_run.calls :
       /\ link_run.calls[c].link_type = "alias"
       /\ MatchesTitle(link_run.calls[c].target)
  /\ \E c \in DOMAIN link_run.calls : link_run.calls[c].link_type = "title"

TitleOnly(t) == ~MatchesId(t) /\ ~MatchesSlug(t) /\ ~MatchesAlias(t) /\ MatchesTitle(t)

\* C17: after a rebuild, a wiki-link whose target matches a title only is
\* stored on its record as a resolved link of type title to the titled
\* document, that document has the backlink, and the rebuild ended normally.
C17_TitleLinkStored ==
  link_run.tool = "link" =>
    \A i \in DOMAIN records :
      \A p \in DOMAIN records[i].full_text :
        (records[i].full_text[p].link /\ TitleOnly(StripName(records[i].full_text[p].target))) =>
          /\ link_run.outcome = "ok"
          /\ \E l \in DOMAIN records[i].links, j \in DOMAIN records :
               /\ records[i].links[l].context = p
               /\ records[i].links[l].resolved
               /\ records[i].links[l].type = "title"
               /\ records[i].links[l].target = records[j].id
               /\ HasTitle(j, StripName(records[i].full_text[p].target))
               /\ \E b \in DOMAIN records[j].backlinks :
                    /\ records[j].backlinks[b].target = records[i].id
                    /\ records[j].backlinks[b].type = "title"

LinksTo(a, b) ==
  \E l \in DOMAIN records[a].links :
    records[a].links[l].resolved /\ records[a].links[l].target = records[b].id

BacklinksFrom(b, a) ==
  Cardinality({j \in DOMAIN records[b].backlinks : records[b].backlinks[j].target = records[a].id})

\* C18: after process_links, B.backlinks holds exactly one entry targeting A
\* when A has a resolved link to B, and none when A has no such link.
C18_BacklinkSymmetry ==
  (link_run.tool = "link" /\ link_run.outcome = "ok") =>
    \A a, b \in DOMAIN records :
      BacklinksFrom(b, a) = IF LinksTo(a, b) THEN 1 ELSE 0

\* every backlink stands for a wiki-link of the current body of its source
NoStaleBacklink ==
  \A a, b \in DOMAIN records :
    BacklinksFrom(b, a) > 0 =>
      \E p \in DOMAIN records[a].full_text :
        /\ records[a].full_text[p].link
        /\ resolve_link(StripName(records[a].full_text[p].target),
                        build_lookup_maps(records)).target_id = records[b].id

\* C19: a rebuild leaves only backlinks that follow from the current bodies,
\* and a rebuild that follows a rebuild changes no record.
C19_RebuildIdempotent ==
  [][link_run'.tool = "link" =>
       /\ NoStaleBacklink'
       /\ link_run.tool = "link" => records' = records]_vars

\* ==================================================================
\* The relevance scorers (.pkms/tools/relevance.py, pkms/tools/relevance.py)
\* ==================================================================
\* A component score is a number of millionths (One is 1.0), a weight a
\* number of tenths, a relevance score a number of ten-millionths.  exp and
\* log are tabulated for the inputs of the model, rounded to the millionth.
One == 1000000

\* the default weights (recency, links, quality, user), in tenths
DefaultWeights == <<4, 3, 2, 1>>

\* the weights of config.toml: the defaults, or weights that sum to 2.0
WeightChoices == {DefaultWeights, <<8, 6, 4, 2>>}

RECENCY_HALF_LIFE_DAYS == 90

HALF_LIFE_DAYS == 180

\* MIN_SCORE_THRESHOLD = 0.15, in ten-millionths
MIN_SCORE_THRESHOLD == 1500000

\* what the scorers read of a record: days since the last update (negative
\* for an update time in the future), number of backlinks, number of words,
\* number of outgoing links, status.human_edited, agent.reviewed
ScoredRecords ==
  [age_days : {0 - 90, 0, 90, 900, 9000},
   backlinks : {0, 1, 3, 100, 150},
   words : {0, 500, 2000, 5000},
   links : {0, 2},
   human_edited : BOOLEAN,
   reviewed : BOOLEAN]

\* math.exp(-h / 2)
ExpNegHalves(h) == CASE h = 0 - 2 -> 2718282
                     [] h = 0 - 1 -> 1648721
                     [] h = 0 -> 1000000
                     [] h = 1 -> 606531
                     [] h = 2 -> 367879
                     [] h = 10 -> 6738
                     [] h = 20 -> 45
                     [] OTHER -> 0

\* math.log(1 + n) / math.log(1 + MAX_BACKLINKS)
LogRatio(n) == CASE n = 0 -> 0
                 [] n = 1 -> 150190
                 [] n = 3 -> 300381
                 [] n = 100 -> 1000000
                 [] OTHER -> 1087140

\* max(0.0, min(1.0, score))
Clamp(score, unit) == MaxOf(0, MinOf(unit, score))

compute_recency_score(record, half_life) ==
  Clamp(ExpNegHalves((2 * record.age_days) \div half_life), One)

compute_link_score(record) ==
  IF record.backlinks = 0 THEN 0 ELSE Clamp(LogRatio(record.backlinks), One)

compute_quality_score(record) ==
  LET word_score == MinOf(One, record.words * (One \div 2000))
      link_score == IF record.links > 0 THEN One ELSE 0
      media_score == One \div 2
  IN Clamp((5 * word_score + 3 * link_score + 2 * media_score) \div 10, One)

compute_user_score(record) ==
  Clamp((IF record.human_edited THEN 5 * (One \div 10) ELSE 0)
        + (IF record.reviewed THEN 3 * (One \div 10) ELSE 0), One)

WeightedSum(weights, recency, links, quality, user) ==
  weights[1] * recency + weights[2] * links + weights[3] * quality + weights[4] * user

\* .pkms/tools/relevance.py
compute_relevance_score(record, weights) ==
  LET recency == compute_recency_score(record, RECENCY_HALF_LIFE_DAYS)
      links == compute_link_score(record)
      quality == compute_quality_score(record)
      user == compute_user_score(record)
      relevance == WeightedSum(weights, recency, links, quality, user)
  IN [called |-> TRUE, scorer |-> ".pkms/tools", recency |-> recency, links |-> links,
      quality |-> quality, user |-> user, weights |-> weights,
      relevance |-> MaxOf(0, MinOf(10 * One, relevance))]

\* pkms/tools/relevance.py
pkms_tools_compute_relevance_score(record) ==
  LET recency == compute_recency_score(record, HALF_LIFE_DAYS)
      links == compute_link_score(record)
      quality == compute_quality_score(record)
      user == compute_user_score(record)
      relevance == WeightedSum(DefaultWeights, recency, links, quality, user)
  IN [called |-> TRUE, scorer |-> "pkms/tools", recency |-> recency, links |-> links,
      quality |-> quality, user |-> user, weights |-> DefaultWeights,
      relevance |-> MaxOf(MIN_SCORE_THRESHOLD, MinOf(10 * One, relevance))]

InitRelevance ==
  /\ scoring = NoScoring
  /\ chunks_dir = <<>>
  /\ emb_dir = <<>>
  /\ embed_fn = "None"
  /\ group_limit = 1
  /\ ix = <<>>
  /\ chunk_hashes = <<>>
  /\ embeddings_normed = <<>>
  /\ hash_to_chunkid = <<>>
  /\ pc = "off"
  /\ query = NoQuery
  /\ kw_results = <<>>
  /\ sem_results = <<>>
  /\ fused_pairs = <<>>
  /\ outcome = "none"
  /\ result = <<>>
  /\ TIKTOKEN_AVAILABLE = FALSE
  /\ XXHASH_AVAILABLE = FALSE
  /\ text = <<>>
  /\ max_tokens = 0
  /\ runs = <<>>
  /\ StoreToolsIdle
  /\ LinkToolIdle
  /\ FileToolsIdle
  /\ IngestToolIdle
  /\ WorkerIdle

\* update_relevance_scores of .pkms/tools/relevance.py scores a record; a
\* behaviour holds one call
ScoreRecord(record, weights) ==
  /\ ~scoring.called
  /\ scoring' = compute_relevance_score(record, weights)
  /\ UNCHANGED <<searchVars, chunkVars, storeVars, linkVars, fileVars, ingestVars,
                 workerVars>>

\* update_relevance_scores of pkms/tools/relevance.py scores a record
PkmsToolsScoreRecord(record) ==
  /\ ~scoring.called
  /\ scoring' = pkms_tools_compute_relevance_score(record)
  /\ UNCHANGED <<searchVars, chunkVars, storeVars, linkVars, fileVars, ingestVars,
                 workerVars>>

NextRelevance ==
  \/ /\ ~scoring.called
     /\ \E record \in ScoredRecords, weights \in WeightChoices : ScoreRecord(record, weights)
  \/ /\ ~scoring.called
     /\ \E record \in ScoredRecords : PkmsToolsScoreRecord(record)

SpecRelevance == InitRelevance /\ [][NextRelevance]_vars

\* ------------------------------------------------------------------
\* Properties of the relevance scorers
\* ------------------------------------------------------------------
\* C20: the score returned by a relevance scorer is the weighted sum of the
\* four component scores clamped to [0, 1]: it lies in [0, 1], and a sum
\* below the archival threshold is returned as it is.
C20_WeightedSumClampedToUnit ==
  scoring.called =>
    LET sum == WeightedSum(scoring.weights, scoring.recency, scoring.links,
                           scoring.quality, scoring.user)
    IN /\ scoring.relevance = Clamp(sum, 10 * One)
       /\ 0 <= scoring.relevance /\ scoring.relevance <= 10 * One
       /\ (0 <= sum /\ sum < MIN_SCORE_THRESHOLD) => scoring.relevance = sum

\* ==================================================================
\* File writes next to a concurrent reader: save_record and save_records
\* (pkms/lib/records_io.py) as called by the link rebuild, save_chunks
\* (.pkms/tools/chunk.py) as called by chunk_record
\* ==================================================================
\* The content of a file is the sequence of the pieces written to it so
\* far: the members of the JSON object of a record, the lines of a chunk
\* file.  A write is a sequence of steps (open, flushes of the buffer,
\* close); a behaviour holds one writing job and any number of reads.
RecordFile(ulid) == IF ulid = "01A" THEN "records/01A.json" ELSE "records/01B.json"

ChunkFile(doc_id) == IF doc_id = 1 THEN "chunks/1.ndjson" ELSE "chunks/2.ndjson"

\* records_dir.glob("*.json")
RecordFiles == <<RecordFile("01A"), RecordFile("01B")>>

ChunkFiles == {ChunkFile(d) : d \in DocIds}

\* json.dump(record.model_dump(...)): the object, member by member
RecordJson(record) ==
  <<[key |-> "id", value |-> record.id],
    [key |-> "slug..full_text",
     value |-> <<record.slug, record.aliases, record.title, record.full_text>>],
    [key |-> "links", value |-> record.links],
    [key |-> "backlinks", value |-> record.backlinks]>>

\* json.load accepts the text of a whole object only
JsonValid(content) == Len(content) = 4

\* Record(**data)
RecordOf(content) ==
  [id |-> content[1].value, slug |-> content[2].value[1],
   aliases |-> content[2].value[2], title |-> content[2].value[3],
   full_text |-> content[2].value[4], links |-> content[3].value,
   backlinks |-> content[4].value]

\* files that cannot be parsed are skipped
RECURSIVE load_all_records(_, _)
load_all_records(d, files) ==
  IF files = <<>> THEN <<>>
  ELSE (IF JsonValid(d[Head(files)]) THEN <<RecordOf(d[Head(files)])>> ELSE <<>>)
       \o load_all_records(d, Tail(files))

\* the records as ingest left them: the body, no links
FreshRecords(vault, body1, body2) ==
  <<[vault[1] EXCEPT !.full_text = body1], [vault[2] EXCEPT !.full_text = body2]>>

InitFiles ==
  /\ \E vault \in Vaults, body1 \in Bodies, body2 \in {<<>>, <<WikiLink("pizza", "")>>},
        store \in ChunkStores :
       LET recs == FreshRecords(vault, body1, body2)
       IN disk = [f \in Range(RecordFiles) \cup ChunkFiles |->
                    CASE f = RecordFile("01A") -> RecordJson(recs[1])
                      [] f = RecordFile("01B") -> RecordJson(recs[2])
                      [] f = ChunkFile(1) -> store[1]
                      [] OTHER -> store[2]]
  /\ save = [NoSave EXCEPT !.before = disk, !.after = disk]
  /\ observed = NoRead
  /\ chunks_dir = <<>>
  /\ emb_dir = <<>>
  /\ embed_fn = "None"
  /\ group_limit = 1
  /\ ix = <<>>
  /\ chunk_hashes = <<>>
  /\ embeddings_normed = <<>>
  /\ hash_to_chunkid = <<>>
  /\ pc = "off"
  /\ query = NoQuery
  /\ kw_results = <<>>
  /\ sem_results = <<>>
  /\ fused_pairs = <<>>
  /\ outcome = "none"
  /\ result = <<>>
  /\ TIKTOKEN_AVAILABLE = FALSE
  /\ XXHASH_AVAILABLE = FALSE
  /\ text = <<>>
  /\ max_tokens = 0
  /\ runs = <<>>
  /\ StoreToolsIdle
  /\ LinkToolIdle
  /\ RelevanceToolIdle
  /\ IngestToolIdle
  /\ WorkerIdle

FilesUnchanged ==
  UNCHANGED <<searchVars, chunkVars, storeVars, linkVars, relevanceVars, ingestVars,
              workerVars>>

\* link.main up to the call of save_records: load_all_records and
\* process_links; when process_links raises nothing is saved
LinkMainBegin ==
  /\ save.pc = "idle"
  /\ LET run == process_links(load_all_records(disk, RecordFiles))
         queue == [i \in DOMAIN run.recs |->
                     [file |-> RecordFile(run.recs[i].id),
                      content |-> RecordJson(run.recs[i])]]
         after == [f \in DOMAIN disk |->
                     IF \E i \in DOMAIN queue : queue[i].file = f
                     THEN queue[CHOOSE i \in DOMAIN queue : queue[i].file = f].content
                     ELSE disk[f]]
     IN save' = IF run.raised
                THEN [NoSave EXCEPT !.job = "link", !.pc = "raised",
                                    !.before = disk, !.after = disk]
                ELSE [NoSave EXCEPT !.job = "link", !.pc = "saving", !.queue = queue,
                                    !.before = disk, !.after = after]
  /\ UNCHANGED <<disk, observed>>
  /\ FilesUnchanged

\* save_record, open(out_path, "w"): the file is truncated
SaveRecordOpen ==
  /\ save.job = "link" /\ save.pc = "saving" /\ ~save.opened
  /\ disk' = [disk EXCEPT ![Head(save.queue).file] = <<>>]
  /\ save' = [save EXCEPT !.opened = TRUE, !.file = Head(save.queue).file,
                          !.pending = Head(save.queue).content,
                          !.queue = Tail(save.queue)]
  /\ UNCHANGED observed
  /\ FilesUnchanged

\* save_record, json.dump: the buffer of the file object is full and is
\* written out while members remain to be written
SaveRecordFlush ==
  /\ save.job = "link" /\ save.pc = "saving" /\ save.opened
  /\ Len(save.pending) > 1
  /\ disk' = [disk EXCEPT ![save.file] = Append(@, Head(save.pending))]
  /\ save' = [save EXCEPT !.pending = Tail(save.pending)]
  /\ UNCHANGED observed
  /\ FilesUnchanged

\* save_record, end of the with block: the rest is written and the file is
\* closed; save_records goes on with the next record
SaveRecordClose ==
  /\ save.job = "link" /\ save.pc = "saving" /\ save.opened
  /\ disk' = [disk EXCEPT ![save.file] = @ \o save.pending]
  /\ save' = [save EXCEPT !.opened = FALSE, !.pending = <<>>,
                          !.pc = IF save.queue = <<>> THEN "done" ELSE "saving"]
  /\ UNCHANGED observed
  /\ FilesUnchanged

\* a hard I/O error in open, write or close: the exception leaves
\* save_record, save_records and main
SaveRecordIoError ==
  /\ save.job = "link" /\ save.pc = "saving"
  /\ save' = [save EXCEPT !.pc = "io_error", !.opened = FALSE]
  /\ UNCHANGED <<disk, observed>>
  /\ FilesUnchanged

\* chunk_record up to the call of save_chunks: the document was chunked anew
ChunkRecordBegin(doc_id, hs) ==
  /\ save.pc = "idle"
  /\ save' = [NoSave EXCEPT !.job = "chunk", !.pc = "saving",
                            !.queue = <<[file |-> ChunkFile(doc_id),
                                         content |-> MkChunkFile(doc_id, hs)]>>,
                            !.before = disk,
                            !.after = [disk EXCEPT ![ChunkFile(doc_id)] =
                                         MkChunkFile(doc_id, hs)]]
  /\ UNCHANGED <<disk, observed>>
  /\ FilesUnchanged

\* save_chunks, open(out_path, "w"): the file is truncated
SaveChunksOpen ==
  /\ save.job = "chunk" /\ save.pc = "saving" /\ ~save.opened /\ save.queue # <<>>
  /\ disk' = [disk EXCEPT ![Head(save.queue).file] = <<>>]
  /\ save' = [save EXCEPT !.opened = TRUE, !.file = Head(save.queue).file,
                          !.pending = Head(save.queue).content,
                          !.queue = Tail(save.queue)]
  /\ UNCHANGED observed
  /\ FilesUnchanged

\* save_chunks, the loop over the chunks: lines reach the file while others
\* remain to be written
SaveChunksFlush ==
  /\ save.job = "chunk" /\ save.pc = "saving" /\ save.opened
  /\ Len(save.pending) > 1
  /\ disk' = [disk EXCEPT ![save.file] = Append(@, Head(save.pending))]
  /\ save' = [save EXCEPT !.pending = Tail(save.pending)]
  /\ UNCHANGED observed
  /\ FilesUnchanged

\* save_chunks, end of the with block
SaveChunksClose ==
  /\ save.job = "chunk" /\ save.pc = "saving" /\ save.opened
  /\ disk' = [disk EXCEPT ![save.file] = @ \o save.pending]
  /\ save' = [save EXCEPT !.opened = FALSE, !.pending = <<>>, !.pc = "done"]
  /\ UNCHANGED observed
  /\ FilesUnchanged

\* a hard I/O error in open, write or close: chunk_record catches the
\* exception and prints it
SaveChunksIoError ==
  /\ save.job = "chunk" /\ save.pc = "saving" /\ (save.opened \/ save.queue # <<>>)
  /\ save' = [save EXCEPT !.pc = "io_error", !.opened = FALSE]
  /\ UNCHANGED <<disk, observed>>
  /\ FilesUnchanged

\* load_record / load_all_records of another process reads a record file
LoadRecord(file) ==
  /\ observed' = [file |-> file, raw |-> disk[file], valid |-> JsonValid(disk[file]),
                  during |-> save.pc]
  /\ UNCHANGED <<disk, save>>
  /\ FilesUnchanged

\* load_chunks of another process (embedder, indexer, engine start-up)
\* reads a chunk file: every line that is there is a chunk
LoadChunks(file) ==
  /\ observed' = [file |-> file, raw |-> disk[file], valid |-> TRUE,
                  during |-> save.pc]
  /\ UNCHANGED <<disk, save>>
  /\ FilesUnchanged

NextFiles ==
  \/ LinkMainBegin
  \/ SaveRecordOpen
  \/ SaveRecordFlush
  \/ SaveRecordClose
  \/ SaveRecordIoError
  \/ \E doc_id \in DocIds, hs \in ChunkLists : ChunkRecordBegin(doc_id, hs)
  \/ SaveChunksOpen
  \/ SaveChunksFlush
  \/ SaveChunksClose
  \/ SaveChunksIoError
  \/ \E file \in Range(RecordFiles) : LoadRecord(file)
  \/ \E file \in ChunkFiles : LoadChunks(file)

SpecFiles == InitFiles /\ [][NextFiles]_vars

\* ------------------------------------------------------------------
\* Properties of the file writes
\* ------------------------------------------------------------------
\* C21: what a reader gets from a record file is the complete record as it
\* was before the write or the complete new record.
C21_RecordReadIsOldOrNew ==
  observed.file \in Range(RecordFiles) =>
    \/ observed.raw = save.before[observed.file]
    \/ observed.raw = save.after[observed.file]

\* C22: what a reader gets from a chunk file is all lines of the previous
\* version or all lines of the new one, and after a write that failed the
\* previous file is in place.
C22_ChunkFileAllOrNothing ==
  /\ observed.file \in ChunkFiles =>
       \/ observed.raw = save.before[observed.file]
       \/ observed.raw = save.after[observed.file]
  /\ (save.job = "chunk" /\ save.pc = "io_error") =>
       \A f \in ChunkFiles : disk[f] = save.before[f]

\* C23: after a link rebuild that stopped on an I/O error, no record file
\* holds the rebuilt record while another record file that the rebuild
\* changes still holds the old one.
C23_FailedRebuildLeavesPriorState ==
  (save.job = "link" /\ save.pc = "io_error") =>
    ~ \E f, g \in Range(RecordFiles) :
        /\ save.after[f] # save.before[f] /\ disk[f] = save.after[f]
        /\ save.after[g] # save.before[g] /\ disk[g] = save.before[g]

\* ==================================================================
\* create_record (.pkms/pkms/tools/ingest.py, pkms/tools/ingest.py)
\* ==================================================================
\* A file time (st_ctime, st_mtime) is a number of half microseconds, a
\* datetime a number of microseconds, both counted from the same instant.
FileTimes == 0..5

\* frontmatter.date_created: absent, or a datetime
NoDate == [some |-> FALSE, at |-> 0]

DateAt(t) == [some |-> TRUE, at |-> t]

DatesCreated == {NoDate} \cup {DateAt(t) : t \in 0..3}

\* datetime.fromtimestamp(ts, tz=timezone.utc): rounded to the microsecond,
\* halves to the even one
fromtimestamp(ts) ==
  IF ts % 2 = 0 THEN ts \div 2
  ELSE IF ((ts - 1) \div 2) % 2 = 0 THEN (ts - 1) \div 2 ELSE (ts + 1) \div 2

\* datetime.isoformat() followed by datetime.fromisoformat(): the text
\* carries the microseconds
IsoRoundTrip(dt) == (dt \div 1000000) * 1000000 + (dt % 1000000)

\* the dates of the record built by create_record
create_record(date_created, st_ctime, st_mtime) ==
  [called |-> TRUE, module |-> ".pkms/pkms/tools/ingest.py",
   date_created |-> date_created, st_ctime |-> st_ctime, st_mtime |-> st_mtime,
   created |-> IF date_created.some THEN date_created.at
               ELSE IsoRoundTrip(fromtimestamp(st_ctime)),
   updated |-> IsoRoundTrip(fromtimestamp(st_mtime))]

pkms_tools_create_record(date_created, st_ctime, st_mtime) ==
  [called |-> TRUE, module |-> "pkms/tools/ingest.py",
   date_created |-> date_created, st_ctime |-> st_ctime, st_mtime |-> st_mtime,
   created |-> IF date_created.some THEN date_created.at
               ELSE IsoRoundTrip(fromtimestamp(st_ctime)),
   updated |-> IsoRoundTrip(fromtimestamp(st_mtime))]

InitIngest ==
  /\ ingested = NoIngest
  /\ chunks_dir = <<>>
  /\ emb_dir = <<>>
  /\ embed_fn = "None"
  /\ group_limit = 1
  /\ ix = <<>>
  /\ chunk_hashes = <<>>
  /\ embeddings_normed = <<>>
  /\ hash_to_chunkid = <<>>
  /\ pc = "off"
  /\ query = NoQuery
  /\ kw_results = <<>>
  /\ sem_results = <<>>
  /\ fused_pairs = <<>>
  /\ outcome = "none"
  /\ result = <<>>
  /\ TIKTOKEN_AVAILABLE = FALSE
  /\ XXHASH_AVAILABLE = FALSE
  /\ text = <<>>
  /\ max_tokens = 0
  /\ runs = <<>>
  /\ StoreToolsIdle
  /\ LinkToolIdle
  /\ RelevanceToolIdle
  /\ FileToolsIdle
  /\ WorkerIdle

\* ingest_file of .pkms/pkms/tools/ingest.py builds the record of a note; a
\* behaviour holds one call
CreateRecord(date_created, st_ctime, st_mtime) ==
  /\ ~ingested.called
  /\ ingested' = create_record(date_created, st_ctime, st_mtime)
  /\ UNCHANGED <<searchVars, chunkVars, storeVars, linkVars, relevanceVars, fileVars,
                 workerVars>>

\* ingest_file of pkms/tools/ingest.py builds the record of a note
PkmsToolsCreateRecord(date_created, st_ctime, st_mtime) ==
  /\ ~ingested.called
  /\ ingested' = pkms_tools_create_record(date_created, st_ctime, st_mtime)
  /\ UNCHANGED <<searchVars, chunkVars, storeVars, linkVars, relevanceVars, fileVars,
                 workerVars>>

NextIngest ==
  \/ /\ ~ingested.called
     /\ \E date_created \in DatesCreated, st_ctime \in FileTimes, st_mtime \in FileTimes :
          CreateRecord(date_created, st_ctime, st_mtime)
  \/ /\ ~ingested.called
     /\ \E date_created \in DatesCreated, st_ctime \in FileTimes, st_mtime \in FileTimes :
          PkmsToolsCreateRecord(date_created, st_ctime, st_mtime)

SpecIngest == InitIngest /\ [][NextIngest]_vars

\* ------------------------------------------------------------------
\* Properties of create_record
\* ------------------------------------------------------------------
\* C24: the record built by create_record has created <= updated, whatever
\* date_created, st_ctime and st_mtime are.
C24_CreatedNotAfterUpdated ==
  ingested.called => ingested.created <= ingested.updated

\* ==================================================================
\* The ingest worker (services/ingest_worker/worker.py, common/state.py)
\* ==================================================================
\* One file lies in the inbox and its content does not change, so every
\* handler computes the same checksum.  Each on_created handler runs in a
\* thread or process of its own; a step is one call that reads or writes
\* the shared state (the state database, the lock directory, the inbox).
MaxHandlers == 3       \* on_created is called MaxHandlers times for the path

Handlers == 1..MaxHandlers

\* sha256_file(path) of the unchanged content
Checksum == "c1"

NoRow == [checksum |-> "none", tries |-> 0]

InitWorker ==
  /\ handlers = [h \in Handlers |-> "created"]
  /\ tracker = NoRow
  /\ lockfile = FALSE
  /\ dispatches = <<>>
  /\ inbox = TRUE
  /\ chunks_dir = <<>>
  /\ emb_dir = <<>>
  /\ embed_fn = "None"
  /\ group_limit = 1
  /\ ix = <<>>
  /\ chunk_hashes = <<>>
  /\ embeddings_normed = <<>>
  /\ hash_to_chunkid = <<>>
  /\ pc = "off"
  /\ query = NoQuery
  /\ kw_results = <<>>
  /\ sem_results = <<>>
  /\ fused_pairs = <<>>
  /\ outcome = "none"
  /\ result = <<>>
  /\ TIKTOKEN_AVAILABLE = FALSE
  /\ XXHASH_AVAILABLE = FALSE
  /\ text = <<>>
  /\ max_tokens = 0
  /\ runs = <<>>
  /\ StoreToolsIdle
  /\ LinkToolIdle
  /\ RelevanceToolIdle
  /\ FileToolsIdle
  /\ IngestToolIdle

WorkerUnchanged ==
  UNCHANGED <<searchVars, chunkVars, storeVars, linkVars, relevanceVars, fileVars,
              ingestVars>>

\* on_created, lines 29-32: sha256_file; a file that is gone ends the handler
ComputeChecksum(h) ==
  /\ handlers[h] = "created"
  /\ handlers' = [handlers EXCEPT ![h] = IF inbox THEN "summed" ELSE "done"]
  /\ UNCHANGED <<tracker, lockfile, dispatches, inbox>>
  /\ WorkerUnchanged

\* IndexTracker.is_processed: the row of the path holds this checksum
is_processed(checksum) == tracker.checksum = checksum

\* on_created, lines 33-34
CheckProcessed(h) ==
  /\ handlers[h] = "summed"
  /\ handlers' = [handlers EXCEPT ![h] = IF is_processed(Checksum) THEN "done" ELSE "checked"]
  /\ UNCHANGED <<tracker, lockfile, dispatches, inbox>>
  /\ WorkerUnchanged

\* on_created, lines 40-43: os.open with O_CREAT | O_EXCL
AcquireLock(h) ==
  /\ handlers[h] = "checked"
  /\ handlers' = [handlers EXCEPT ![h] = IF lockfile THEN "done" ELSE "locked"]
  /\ lockfile' = TRUE
  /\ UNCHANGED <<tracker, dispatches, inbox>>
  /\ WorkerUnchanged

\* on_created, line 45: dispatch(path) returns, or raises; it raises when the
\* file is gone
Dispatch(h, ok) ==
  /\ handlers[h] = "locked"
  /\ ok => inbox
  /\ dispatches' = Append(dispatches, [handler |-> h, checksum |-> Checksum])
  /\ handlers' = [handlers EXCEPT ![h] = IF ok THEN "dispatched" ELSE "failed"]
  /\ UNCHANGED <<tracker, lockfile, inbox>>
  /\ WorkerUnchanged

\* IndexTracker.mark_processed, called at line 46
mark_processed(h) ==
  /\ handlers[h] = "dispatched"
  /\ tracker' = [checksum |-> Checksum, tries |-> 0]
  /\ handlers' = [handlers EXCEPT ![h] = "finally"]
  /\ UNCHANGED <<lockfile, dispatches, inbox>>
  /\ WorkerUnchanged

\* on_created, lines 48-55: add_retry, then move_dead or move_retry takes
\* the file out of its path
Retry(h) ==
  /\ handlers[h] = "failed"
  /\ tracker' = [tracker EXCEPT !.tries = @ + 1]
  /\ inbox' = FALSE
  /\ handlers' = [handlers EXCEPT ![h] = "finally"]
  /\ UNCHANGED <<lockfile, dispatches>>
  /\ WorkerUnchanged

\* on_created, lines 56-63: the lock file is closed and unlinked
ReleaseLock(h) ==
  /\ handlers[h] = "finally"
  /\ lockfile' = FALSE
  /\ handlers' = [handlers EXCEPT ![h] = "done"]
  /\ UNCHANGED <<tracker, dispatches, inbox>>
  /\ WorkerUnchanged

NextWorker ==
  \/ \E h \in Handlers : ComputeChecksum(h)
  \/ \E h \in Handlers : CheckProcessed(h)
  \/ \E h \in Handlers : AcquireLock(h)
  \/ \E h \in Handlers, ok \in BOOLEAN : Dispatch(h, ok)
  \/ \E h \in Handlers : mark_processed(h)
  \/ \E h \in Handlers : Retry(h)
  \/ \E h \in Handlers : ReleaseLock(h)

SpecWorker == InitWorker /\ [][NextWorker]_vars

\* ------------------------------------------------------------------
\* Properties of the ingest worker
\* ------------------------------------------------------------------
HoldsLock(h) == handlers[h] \in {"locked", "dispatched", "failed", "finally"}

\* C30: dispatch runs in at most one handler for the path and its checksum,
\* and the lock file exists only while a handler is between acquiring it
\* and its finally block.
C30_DispatchAtMostOnce ==
  /\ \A i, j \in DOMAIN dispatches :
       dispatches[i].checksum = dispatches[j].checksum => i = j
  /\ lockfile => \E h \in Handlers : HoldsLock(h)

====
